---- MODULE Spec2Model ----
(***************************************************************************)
(* Verification model of the core intelligence pipeline of public-pulse-ai *)
(* (services/ai-engine/src): the text classifier with its lazily loaded    *)
(* model, the sentiment / urgency analyzer, the risk fusion engine and the *)
(* city intelligence summarizer.                                           *)
(*                                                                         *)
(* Numbers.  Python floats are modelled as exact fixed-point integers:     *)
(*   - confidences, urgency scores and signal scores in hundredths;        *)
(*   - severity in 1/100000 inside analyze_sentiment;                      *)
(*   - the fused risk in 1/20000 (weights in hundredths, scores in         *)
(*     hundredths, and the imputed weather is a half of a sum).            *)
(* round(x, 2) rounds the exact value to hundredths; where the exact value *)
(* is a decimal tie or sits on a threshold, the outcome depends on the     *)
(* floating-point error of the computation, which is an input (fp).        *)
(*                                                                         *)
(* Texts are TLA+ strings; substring search, lower-casing and the regular  *)
(* expressions are computed character by character.                        *)
(*                                                                         *)
(* Time.  The wall clock is an input of every call that reads it: the hour *)
(* and the minute of the day for the fusion engine, a time in ticks for    *)
(* the summarizer.                                                         *)
(***************************************************************************)
EXTENDS Integers, Sequences, FiniteSets, TLC

VARIABLES
    \* ---- classifier.py: process-wide state and its concurrent callers
    model_file,      \* what is at MODEL_PATH: "missing", "corrupt" or "valid"
    _model,          \* classifier._model: None or the unpickled model
    _model_loaded,   \* classifier._model_loaded
    _model_lock,     \* the thread holding classifier._model_lock, 0 if free
    pc,              \* per thread: position inside classify_issue/_get_model
    arg,             \* per thread: the text passed to classify_issue
    got,             \* per thread: the value _get_model returned
    ret,             \* per thread: what classify_issue returned
    calls,           \* number of classify_issue calls started so far
    opens,           \* how often MODEL_PATH was opened and unpickled
    attempts,        \* how often the load block (lines 22-31) was entered
    slow_entries,    \* how many calls found _model_loaded false at line 17
    predict_raised,  \* per thread: predict_proba raised in the current call
    \* ---- classify_issue (rule path) and analyze_sentiment on one text
    t_text,          \* the input text
    t_class,         \* result of classify_issue without a model, or NoPair
    t_sent,          \* result of analyze_sentiment, or NoProfile
    \* ---- fusion_engine.py
    f_inputs,        \* the inputs dict of the last/next calculate_risk call
    f_hour,          \* datetime.now().hour at that call
    f_minute,        \* datetime.now().minute at that call
    f_result,        \* the dict calculate_risk returned, or NoRisk
    f_op,            \* which call produced f_result
    \* ---- ai_summarizer.py: generate_executive_summary
    s_incidents,     \* the incidents list passed
    s_predictions,   \* the predictions list passed
    s_hours,         \* recent_hours
    s_now,           \* datetime.now() when the call starts, in ticks
    s_result,        \* the dict returned, SummaryRaised or NoSummary
    s_op,            \* which call produced s_result
    \* ---- ai_summarizer.py: _calculate_health_score
    h_active,        \* the arguments active, critical, trend, predictions
    h_critical,
    h_trend,
    h_predictions,
    h_score,         \* the score returned, -1 before the first call
    h_op,            \* which call produced h_score
    \* ---- ai_summarizer.py: _detect_anomalies
    a_counts,        \* how many incidents of each kind of AnomalyKinds exist
    a_hours,         \* hours
    a_anomalies,     \* the list returned, or NotDetected
    \* ---- ai_summarizer.py: _generate_recommendations
    r_counts,        \* how many incidents of each kind of RecKinds exist
    r_predictions,   \* the predictions list
    r_clock,         \* datetime.now() at line 265, in ticks
    r_recs,          \* the list returned, or NoRecs
    \* ---- ai_summarizer.py: generate_area_briefing
    b_counts,        \* how many incidents of each kind of BriefingKinds exist
    b_area,          \* area_name
    b_briefing,      \* the dict returned, or NoBriefing
    \* ---- ai_summarizer.py: _calculate_trend
    tr_counts,       \* how many incidents of each age of TrendAges exist
    tr_hours,        \* hours
    tr_trend         \* the dict returned, or NoTrend

cvars == <<model_file, _model, _model_loaded, _model_lock, pc, arg, got, ret,
           calls, opens, attempts, slow_entries, predict_raised>>
tvars == <<t_text, t_class, t_sent>>
fvars == <<f_inputs, f_hour, f_minute, f_result, f_op>>
svars == <<s_incidents, s_predictions, s_hours, s_now, s_result, s_op>>
hvars == <<h_active, h_critical, h_trend, h_predictions, h_score, h_op>>
avars == <<a_counts, a_hours, a_anomalies>>
rvars == <<r_counts, r_predictions, r_clock, r_recs>>
bvars == <<b_counts, b_area, b_briefing>>
trvars == <<tr_counts, tr_hours, tr_trend>>
mvars == <<svars, hvars, avars, rvars, bvars, trvars>>
vars == <<cvars, tvars, fvars, mvars>>

\* Python's None where a string is expected (_model, a thread's text)
None == "None"
\* "nothing returned yet" for the three kinds of result
NoPair == [category |-> "None"]
NoProfile == [urgency |-> "None"]
NoRisk == [level |-> "None"]
NoSummary == [narrative |-> "None"]
NotDetected == <<[type |-> "None", severity |-> "None", affected |-> "None"]>>
NoRecs == <<[priority |-> "None", area |-> "None", action |-> "None", reason |-> "None"]>>
NoBriefing == [risk_level |-> "None"]
NoTrend == [direction |-> "None"]

(***************************************************************************)
(* Bounds of the model.                                                    *)
(***************************************************************************)
NumThreads == 2      \* concurrent callers of classify_issue
MaxCalls == 3        \* classify_issue calls in a run
MaxTokens == 2       \* vocabulary tokens per generated text
MaxSignals == 2      \* keys present in a generated inputs dict
MaxIncidents == 2    \* incidents in a generated list of the summary
MaxActive == 16      \* active count passed to _calculate_health_score
MaxCritical == 5     \* critical count it starts from
MaxHalf == 3         \* incidents in one half of the trend window
MaxPredictions == 6  \* prediction count passed to _calculate_health_score
MaxReports == 10     \* incidents reported before _detect_anomalies runs
MaxRecIncidents == 9     \* active incidents passed to _generate_recommendations
MaxRecPredictions == 4   \* predictions passed to it
MaxBriefingIncidents == 6   \* incidents passed to generate_area_briefing
MaxTrendIncidents == 61     \* incidents passed to _calculate_trend

Threads == 1..NumThreads

(***************************************************************************)
(* Arithmetic helpers.                                                     *)
(***************************************************************************)
Min(a, b) == IF a <= b THEN a ELSE b
Max(a, b) == IF a >= b THEN a ELSE b

\* The error of a binary floating-point computation against the exact value:
\* the computed double lies just below (-1), on (0) or just above (1) it.
\* Which of them depends on the operands' binary expansions, so every call
\* that rounds or compares a computed float takes it as an input.
FloatErrors == {-1, 0, 1}

\* round(x, 2) in hundredths, x being `unit` times finer than hundredths and
\* computed with error fp: the nearest hundredth; a decimal tie is decided by
\* the side the double lies on, and goes to even when the double is exact.
RoundDiv(x, unit, fp) ==
    LET q == x \div unit
        r == x % unit
    IN  IF 2 * r < unit THEN q
        ELSE IF 2 * r > unit THEN q + 1
        ELSE IF fp < 0 THEN q
        ELSE IF fp > 0 THEN q + 1
        ELSE IF q % 2 = 0 THEN q ELSE q + 1

\* score > threshold, score computed with error fp
Above(score, threshold, fp) == score > threshold \/ (score = threshold /\ fp > 0)

(***************************************************************************)
(* Strings, character by character.                                        *)
(***************************************************************************)
Char(s, i) == SubSeq(s, i, i)

UpperLetters == "ABCDEFGHIJKLMNOPQRSTUVWXYZ"
LowerLetters == "abcdefghijklmnopqrstuvwxyz"
Digits == "0123456789"

InString(c, alphabet) == \E i \in 1..Len(alphabet) : Char(alphabet, i) = c

IsUpper(c) == InString(c, UpperLetters)
IsDigit(c) == InString(c, Digits)
\* \s of the regular expressions, and what str.strip / str.split cut at
IsSpace(c) == c \in {" ", "\t", "\n", "\r"}
\* \w of the regular expressions
IsWord(c) == InString(c, LowerLetters) \/ InString(c, UpperLetters)
             \/ IsDigit(c) \/ c = "_"

LowerChar(c) ==
    IF IsUpper(c)
    THEN Char(LowerLetters, CHOOSE i \in 1..Len(UpperLetters) : Char(UpperLetters, i) = c)
    ELSE c

\* str.lower()
RECURSIVE Lower(_)
Lower(s) == IF Len(s) = 0 THEN ""
            ELSE LowerChar(Char(s, 1)) \o Lower(SubSeq(s, 2, Len(s)))

\* str.strip()
Strip(s) ==
    LET keep == {i \in 1..Len(s) : ~IsSpace(Char(s, i))}
    IN  IF keep = {} THEN ""
        ELSE SubSeq(s, CHOOSE i \in keep : \A j \in keep : i <= j,
                       CHOOSE i \in keep : \A j \in keep : i >= j)

\* kw occurs at position i of s
At(s, i, kw) == i >= 1 /\ i + Len(kw) - 1 <= Len(s) /\ SubSeq(s, i, i + Len(kw) - 1) = kw

\* the Python test `kw in s`
Contains(s, kw) == \E i \in 1..(Len(s) - Len(kw) + 1) : At(s, i, kw)

\* sum(1 for kw in kws if kw in s): a keyword listed twice counts twice
CountHits(s, kws) == Cardinality({i \in 1..Len(kws) : Contains(s, kws[i])})

\* number of maximal runs of characters satisfying P: len(s.split()) with
\* P = non-space, len(re.findall(r'\d+', s)) with P = digit
Runs(s, P(_)) ==
    Cardinality({i \in 1..Len(s) : P(Char(s, i)) /\ (i = 1 \/ ~P(Char(s, i - 1)))})

NotSpace(c) == ~IsSpace(c)

\* str.count(c)
CountChar(s, c) == Cardinality({i \in 1..Len(s) : Char(s, i) = c})

\* every character of s[i..j] satisfies P (true of the empty range)
AllIn(s, i, j, P(_)) == \A k \in i..j : P(Char(s, k))

(***************************************************************************)
(* classifier.py: the rule-based fallback, lines 36-42 and 64-80.          *)
(***************************************************************************)
Categories == <<"traffic", "garbage", "water", "light">>

KEYWORDS(category) ==
    CASE category = "traffic" -> <<"traffic", "jam", "congestion", "stuck", "road blocked", "vehicle">>
      [] category = "garbage" -> <<"garbage", "trash", "waste", "rubbish", "bin", "overflow", "smell", "dirty">>
      [] category = "water"   -> <<"water", "logging", "flood", "drainage", "leak", "pipe", "rain">>
      [] category = "light"   -> <<"light", "street", "dark", "lamp", "pole", "electricity">>

\* scores[category] after the loops of lines 68-71
Score(text_lower, category) == CountHits(text_lower, KEYWORDS(category))

\* BestCategory with the last of the keys of largest score
BestCategory_LastWins(text_lower) ==
    LET i == CHOOSE i \in 1..Len(Categories) :
                 /\ \A j \in 1..Len(Categories) :
                        Score(text_lower, Categories[j]) <= Score(text_lower, Categories[i])
                 /\ \A j \in (i + 1)..Len(Categories) :
                        Score(text_lower, Categories[j]) < Score(text_lower, Categories[i])
    IN  Categories[i]

\* max(scores, key=scores.get): the first key, in insertion order, whose
\* score is the largest
BestCategory(text_lower) ==
    LET i == CHOOSE i \in 1..Len(Categories) :
                 /\ \A j \in 1..Len(Categories) :
                        Score(text_lower, Categories[j]) <= Score(text_lower, Categories[i])
                 /\ \A j \in 1..(i - 1) :
                        Score(text_lower, Categories[j]) < Score(text_lower, Categories[i])
    IN  Categories[i]

\* RuleConfidence without the cap at 0.95
RuleConfidence_NoCap(max_score) == 50 + max_score * 10

\* min(0.5 + (max_score * 0.1), 0.95), in hundredths
RuleConfidence(max_score) == Min(50 + max_score * 10, 95)

\* lines 64-80: the (category, confidence) the rule path returns
RuleBased(text) ==
    LET text_lower == Lower(text)
        best_category == BestCategory(text_lower)
        max_score == Score(text_lower, best_category)
    IN  IF max_score = 0
        THEN [category |-> "other", confidence |-> 0]
        ELSE [category |-> best_category, confidence |-> RuleConfidence(max_score)]

(***************************************************************************)
(* sentiment_analyzer.py                                                   *)
(***************************************************************************)
\* URGENCY_KEYWORDS[tier]: the en, hi and gu lists one after the other, as
\* the loops of lines 189-194 walk them (a word in two lists counts twice)
URGENCY_KEYWORDS(tier) ==
    CASE tier = "critical" ->
            <<"emergency", "urgent", "immediately", "danger", "life-threatening", "critical", "fatal",
              "collapse", "drowning", "fire", "explosion", "accident", "bleeding", "dying">>
            \o <<"emergency", "turant", "jaldi", "khatarnak", "jaan", "aag", "hadsa", "madat">>
            \o <<"tatkalik", "jaldi", "jokhami", "aag", "akasmat", "madad">>
      [] tier = "high" ->
            <<"flooding", "blocked", "stuck", "stranded", "overflow", "sewage", "hazard",
              "unsafe", "broken", "fallen", "collapsed", "power cut", "blackout", "major">>
            \o <<"baarish", "paani", "band", "tuta", "kharab", "bijli", "bada", "bahut">>
            \o <<"varsad", "paani", "band", "tutelu", "kharab", "vij", "motu">>
      [] tier = "moderate" ->
            <<"pothole", "garbage", "smell", "dirty", "noisy", "crack", "leak", "slow",
              "damaged", "poor", "bad", "complaint", "issue", "problem", "concern">>
            \o <<"gaddha", "kachra", "ganda", "shor", "tuta", "samasya", "shikayat">>
            \o <<"khado", "kachro", "gandu", "awaaj", "tutelu", "samasya", "farid">>

SEVERITY_AMPLIFIERS ==
    <<"very", "extremely", "highly", "massive", "huge", "terrible", "worst",
      "bahut", "bohot", "ekdum", "bilkul", "poora">>

\* _calculate_urgency with the high tier tested before the critical one
_calculate_urgency_HighFirst(text) ==
    LET critical_count == CountHits(text, URGENCY_KEYWORDS("critical"))
        high_count == CountHits(text, URGENCY_KEYWORDS("high"))
        moderate_count == CountHits(text, URGENCY_KEYWORDS("moderate"))
    IN  IF high_count >= 2 THEN <<"high", Min(79, 60 + high_count * 5)>>
        ELSE IF high_count >= 1 THEN <<"high", 60>>
        ELSE IF critical_count >= 2 THEN <<"critical", Min(100, 85 + critical_count * 5)>>
        ELSE IF critical_count >= 1 THEN <<"critical", 80>>
        ELSE IF moderate_count >= 2 THEN <<"moderate", Min(59, 40 + moderate_count * 3)>>
        ELSE IF moderate_count >= 1 THEN <<"moderate", 35>>
        ELSE <<"low", 15>>

\* _calculate_urgency: (label, score in hundredths)
_calculate_urgency(text) ==
    LET critical_count == CountHits(text, URGENCY_KEYWORDS("critical"))
        high_count == CountHits(text, URGENCY_KEYWORDS("high"))
        moderate_count == CountHits(text, URGENCY_KEYWORDS("moderate"))
    IN  IF critical_count >= 2 THEN <<"critical", Min(100, 85 + critical_count * 5)>>
        ELSE IF critical_count >= 1 THEN <<"critical", 80>>
        ELSE IF high_count >= 2 THEN <<"high", Min(79, 60 + high_count * 5)>>
        ELSE IF high_count >= 1 THEN <<"high", 60>>
        ELSE IF moderate_count >= 2 THEN <<"moderate", Min(59, 40 + moderate_count * 3)>>
        ELSE IF moderate_count >= 1 THEN <<"moderate", 35>>
        ELSE <<"low", 15>>

\* _calculate_severity, in 1/100000; urgency_score in hundredths.  The ratio
\* of upper-case characters is floored to that unit.
_calculate_severity(text, urgency_score) ==
    LET base == urgency_score * 600
        word_count == Runs(text, NotSpace)
        length_factor == Min(15000, word_count * 1000)
        caps == Cardinality({i \in 1..Len(text) : IsUpper(Char(text, i))})
        exclamation_count == CountChar(text, "!")
        intensity == Min(15000, (caps * 50000) \div Max(Len(text), 1) + exclamation_count * 3000)
        numbers == Runs(text, IsDigit)
        number_factor == Min(10000, numbers * 2000)
    IN  Min(100000, base + length_factor + intensity + number_factor)

\* HasAmplifier that also takes a triple exclamation mark for an amplifier
HasAmplifier_Exclamations(text_lower) ==
    CountHits(text_lower, SEVERITY_AMPLIFIERS) > 0 \/ Contains(text_lower, "!!!")

\* any(amp in text_lower for amp in SEVERITY_AMPLIFIERS), line 100
HasAmplifier(text_lower) == CountHits(text_lower, SEVERITY_AMPLIFIERS) > 0

\* Amplify without the two min(1.0, ..)
Amplify_NoClamp(amplified, severity_score, urgency_score) ==
    IF amplified
    THEN <<(severity_score * 13) \div 10, urgency_score * 12>>
    ELSE <<severity_score, urgency_score * 10>>

\* lines 101-103: (severity in 1/100000, urgency in thousandths) after the
\* amplification step; severity in 1/100000 and urgency in hundredths before
Amplify(amplified, severity_score, urgency_score) ==
    IF amplified
    THEN <<Min(100000, (severity_score * 13) \div 10), Min(1000, urgency_score * 12)>>
    ELSE <<severity_score, urgency_score * 10>>

\* LOCATION_PATTERNS[0]:
\* \b(?:near|opposite|behind|beside|at|on)\s+[\w\s]+(?:road|chowk|...)\b
LocationPattern1(s) ==
    LET preps == <<"near", "opposite", "behind", "beside", "at", "on">>
        places == <<"road", "chowk", "nagar", "colony", "society", "park", "school",
                    "hospital", "temple", "masjid", "bridge">>
        WordOrSpace(c) == IsWord(c) \/ IsSpace(c)
    IN  \E a \in 1..Len(preps) : \E p \in 1..Len(s) :
            /\ At(s, p, preps[a])
            /\ (p = 1 \/ ~IsWord(Char(s, p - 1)))
            /\ LET e == p + Len(preps[a])
               IN  /\ e <= Len(s)
                   /\ IsSpace(Char(s, e))
                   /\ \E b \in 1..Len(places) : \E j \in (e + 2)..Len(s) :
                          /\ At(s, j, places[b])
                          /\ AllIn(s, e, j - 1, WordOrSpace)
                          /\ LET n == j + Len(places[b])
                             IN  n > Len(s) \/ ~IsWord(Char(s, n))

\* LocationPattern2 with "circle" missing from the alternation
LocationPattern2_NoCircle(s) ==
    LET places == <<"road", "marg", "gali", "chowk", "cross", "naka">>
    IN  \E b \in 1..Len(places) : \E j \in 3..Len(s) :
            /\ At(s, j, places[b])
            /\ \E i \in 2..(j - 1) :
                   /\ AllIn(s, i, j - 1, IsSpace)
                   /\ IsWord(Char(s, i - 1))
            /\ LET n == j + Len(places[b])
               IN  n > Len(s) \/ ~IsWord(Char(s, n))

\* LOCATION_PATTERNS[1]: \b[\w]+\s+(?:road|marg|gali|chowk|circle|cross|naka)\b
LocationPattern2(s) ==
    LET places == <<"road", "marg", "gali", "chowk", "circle", "cross", "naka">>
    IN  \E b \in 1..Len(places) : \E j \in 3..Len(s) :
            /\ At(s, j, places[b])
            /\ \E i \in 2..(j - 1) :
                   /\ AllIn(s, i, j - 1, IsSpace)
                   /\ IsWord(Char(s, i - 1))
            /\ LET n == j + Len(places[b])
               IN  n > Len(s) \/ ~IsWord(Char(s, n))

\* LOCATION_PATTERNS[2]: \b(?:ward|zone|sector|block|phase)\s*[#-]?\s*\d+\b
LocationPattern3(s) ==
    LET units == <<"ward", "zone", "sector", "block", "phase">>
    IN  \E a \in 1..Len(units) : \E p \in 1..Len(s) :
            /\ At(s, p, units[a])
            /\ (p = 1 \/ ~IsWord(Char(s, p - 1)))
            /\ LET e == p + Len(units[a])
               IN  \E i1 \in e..Len(s) : \E i2 \in {i1, i1 + 1} : \E i3 \in i2..Len(s) :
                   \E i4 \in (i3 + 1)..(Len(s) + 1) :
                       /\ AllIn(s, e, i1 - 1, IsSpace)
                       /\ (i2 = i1 + 1 => Char(s, i1) \in {"#", "-"})
                       /\ AllIn(s, i2, i3 - 1, IsSpace)
                       /\ AllIn(s, i3, i4 - 1, IsDigit)
                       /\ (i4 > Len(s) \/ ~IsWord(Char(s, i4)))

vadodara_areas ==
    <<"alkapuri", "gotri", "akota", "fatehgunj", "manjalpur", "sayajigunj",
      "karelibaug", "waghodia", "vasna", "makarpura", "gorwa", "tandalja",
      "subhanpura", "nizampura", "sama", "chhani", "dabhoi">>

\* _has_location: the patterns are searched with re.IGNORECASE, which on
\* these character classes is a search of the lower-cased text
_has_location(text) ==
    LET text_lower == Lower(text)
    IN  \/ LocationPattern1(text_lower)
        \/ LocationPattern2(text_lower)
        \/ LocationPattern3(text_lower)
        \/ CountHits(text_lower, vadodara_areas) > 0

\* lines 72-83: the fixed profile of an empty or whitespace-only text
DefaultProfile ==
    [urgency |-> "low", urgency_score |-> 10, severity_score |-> 20,
     has_location |-> FALSE, amplified |-> FALSE]

\* analyze_sentiment, lines 67-121: the dicts it may return for a text, as
\* far as urgency, severity, amplification and location go (scores in
\* hundredths, after round(.., 2) of a float computed with error fp)
analyze_sentiment(text) ==
    IF Len(text) = 0 \/ Len(Strip(text)) = 0
    THEN {DefaultProfile}
    ELSE LET text_lower == Strip(Lower(text))
             u == _calculate_urgency(text_lower)
             severity_score == _calculate_severity(text_lower, u[2])
             amplified == HasAmplifier(text_lower)
             amp == Amplify(amplified, severity_score, u[2])
             has_location == _has_location(text)
         IN  {[urgency |-> u[1],
               urgency_score |-> RoundDiv(amp[2], 10, fp),
               severity_score |-> RoundDiv(amp[1], 1000, fp),
               has_location |-> has_location,
               amplified |-> amplified] : fp \in FloatErrors}

(***************************************************************************)
(* fusion_engine.py.  An inputs dict is a function from the keys present   *)
(* to scores in hundredths; the signal "x" is the key "x_score".           *)
(***************************************************************************)
CorrelatedSignals == {"time_series", "nlp", "anomaly", "video"}
Signals == CorrelatedSignals \cup {"history", "weather", "temporal"}

\* FusionEngine.__init__: self.weights, in hundredths
weights(signal) ==
    CASE signal = "time_series" -> 25
      [] signal = "nlp"         -> 20
      [] signal = "anomaly"     -> 15
      [] signal = "history"     -> 10
      [] signal = "video"       -> 15
      [] signal = "weather"     -> 10
      [] signal = "temporal"    -> 5

\* inputs.get(key, 0.0)
Get(inputs, signal) == IF signal \in DOMAIN inputs THEN inputs[signal] ELSE 0

\* _calculate_correlation_boost with all seven signals counted
CorrelationBoost_AllSignals(inputs) ==
    LET high_signals == Cardinality({s \in Signals : Get(inputs, s) > 60})
    IN  IF high_signals >= 3 THEN 1600
        ELSE IF high_signals >= 2 THEN 800
        ELSE 0

\* _calculate_correlation_boost with the two boosts exchanged
CorrelationBoost_Exchanged(inputs) ==
    LET high_signals == Cardinality({s \in CorrelatedSignals : Get(inputs, s) > 60})
    IN  IF high_signals >= 3 THEN 800
        ELSE IF high_signals >= 2 THEN 1600
        ELSE 0

\* _calculate_correlation_boost, in 1/20000 (0.08 = 1600, 0.04 = 800)
_calculate_correlation_boost(inputs) ==
    LET high_signals == Cardinality({s \in CorrelatedSignals : Get(inputs, s) > 60})
    IN  IF high_signals >= 3 THEN 1600
        ELSE IF high_signals >= 2 THEN 800
        ELSE 0

\* _get_temporal_factor, in hundredths; hour is datetime.now().hour
_get_temporal_factor(hour) ==
    IF (8 <= hour /\ hour <= 10) \/ (17 <= hour /\ hour <= 20) THEN 80
    ELSE IF 22 <= hour \/ hour <= 5 THEN 30
    ELSE 50

\* _get_level, score in 1/20000 computed with error fp
_get_level(score, fp) ==
    IF Above(score, 16000, fp) THEN "CRITICAL"
    ELSE IF Above(score, 12000, fp) THEN "HIGH"
    ELSE IF Above(score, 8000, fp) THEN "MEDIUM"
    ELSE "LOW"

\* Weather2 with the imputation triggered by the value 0 alone, a present
\* key included
Weather2_ZeroImputed(inputs) ==
    IF Get(inputs, "weather") = 0
    THEN Get(inputs, "time_series") + Get(inputs, "anomaly")
    ELSE 2 * inputs["weather"]

\* lines 35-36: twice the weather score used (weather is a half of a sum
\* when it is imputed)
Weather2(inputs) ==
    IF "weather" \notin DOMAIN inputs
    THEN Get(inputs, "time_series") + Get(inputs, "anomaly")
    ELSE 2 * inputs["weather"]

\* lines 37-38
Temporal(inputs, hour) ==
    IF "temporal" \notin DOMAIN inputs
    THEN _get_temporal_factor(hour)
    ELSE inputs["temporal"]

\* WeightedSum with the weather term subtracted instead of added
WeightedSum_WeatherSubtracted(inputs, hour) ==
    2 * ( weights("time_series") * Get(inputs, "time_series")
        + weights("nlp")         * Get(inputs, "nlp")
        + weights("anomaly")     * Get(inputs, "anomaly")
        + weights("history")     * Get(inputs, "history")
        + weights("video")       * Get(inputs, "video")
        + weights("temporal")    * Temporal(inputs, hour) )
    - weights("weather") * Weather2(inputs)

\* lines 40-48: the weighted sum, in 1/20000
WeightedSum(inputs, hour) ==
    2 * ( weights("time_series") * Get(inputs, "time_series")
        + weights("nlp")         * Get(inputs, "nlp")
        + weights("anomaly")     * Get(inputs, "anomaly")
        + weights("history")     * Get(inputs, "history")
        + weights("video")       * Get(inputs, "video")
        + weights("temporal")    * Temporal(inputs, hour) )
    + weights("weather") * Weather2(inputs)

\* line 52: final_risk = min(1.0, final_risk + correlation_boost), in 1/20000
ClampRisk(risk) == Min(20000, risk)

\* lines 24-52 of calculate_risk: the exact values before any rounding
Fuse(inputs, hour) ==
    LET correlation_boost == _calculate_correlation_boost(inputs)
    IN  [final_risk |-> ClampRisk(WeightedSum(inputs, hour) + correlation_boost),
         weather2 |-> Weather2(inputs),
         temporal |-> Temporal(inputs, hour),
         correlation_boost |-> correlation_boost]

\* lines 54-68 of calculate_risk: the returned dict; final_risk and the
\* breakdown in hundredths (round(.., 2)), correlation_boost in thousandths
\* (round(.., 3)); fp.risk and fp.weather are the errors of the two floats
RiskResult(inputs, fused, fp) ==
    LET \* min(1.0, x) returns exactly 1.0 when it clamps
        err == IF fused.final_risk = 20000 THEN Min(fp.risk, 0) ELSE fp.risk
    IN  [final_risk |-> RoundDiv(fused.final_risk, 200, err),
         level |-> _get_level(fused.final_risk, err),
         breakdown |-> [time_series |-> Get(inputs, "time_series"),
                        nlp |-> Get(inputs, "nlp"),
                        anomaly |-> Get(inputs, "anomaly"),
                        history |-> Get(inputs, "history"),
                        video |-> Get(inputs, "video"),
                        weather |-> RoundDiv(fused.weather2, 2, fp.weather),
                        temporal |-> fused.temporal],
         correlation_boost |-> fused.correlation_boost \div 20]

\* the errors of the two floats a call rounds: the risk and the weather
FusionErrors == [risk : FloatErrors, weather : FloatErrors]

\* calculate_risk(inputs) called at the given hour: the dicts it may return
calculate_risk(inputs, hour) ==
    LET fused == Fuse(inputs, hour)
    IN  {RiskResult(inputs, fused, fp) : fp \in FusionErrors}

\* the inputs of simulate_gotri_scenario, lines 118-124
GotriInputs ==
    [s \in {"time_series", "nlp", "anomaly", "history", "video"} |->
        CASE s = "time_series" -> 95
          [] s = "nlp"         -> 95
          [] s = "anomaly"     -> 90
          [] s = "history"     -> 80
          [] s = "video"       -> 85]

simulate_gotri_scenario(hour) == calculate_risk(GotriInputs, hour)

(***************************************************************************)
(* ai_summarizer.py: CityIntelligenceSummarizer.                           *)
(*                                                                         *)
(* Times are integers, TicksPerHour ticks to the hour.  An incident is a   *)
(* record of the fields the summarizer reads; a key the dict lacks has the *)
(* value "absent".  A Counter is the sequence of its <<key, count>> items  *)
(* in insertion order.  The narrative and the recommendation texts are     *)
(* built as strings; their leading pictographs are left out, as are the    *)
(* timestamp, the estimated_impact texts, the anomaly descriptions and the *)
(* average severity of a hotspot.                                          *)
(***************************************************************************)
TicksPerHour == 20

\* the values of createdAt: a datetime, an ISO string or a number of seconds
\* that denotes the time at; no key (None); a string fromisoformat rejects;
\* a number datetime.fromtimestamp rejects (1e18, NaN, inf)
CreatedAt(time) == [kind |-> "time", at |-> time]
Missing == [kind |-> "missing", at |-> 0]
Unparseable == [kind |-> "unparseable", at |-> 0]
OutOfRange == [kind |-> "out_of_range", at |-> 0]

\* _parse_time, lines 380-384: fromtimestamp raises ValueError, OverflowError
\* or OSError, which nothing catches
ParseRaises(ts) == ts.kind = "out_of_range"

\* _parse_time when it returns; clock is datetime.now() at line 394
_parse_time(ts, clock) ==
    IF ts.kind = "time" THEN ts.at ELSE clock - TicksPerHour

\* Counter(keys): the keys in first-occurrence order with their counts
RECURSIVE Counter(_)
Counter(keys) ==
    IF keys = << >> THEN << >>
    ELSE LET counted == Counter(SubSeq(keys, 1, Len(keys) - 1))
             key == keys[Len(keys)]
         IN  IF \E j \in 1..Len(counted) : counted[j][1] = key
             THEN [j \in 1..Len(counted) |->
                      IF counted[j][1] = key
                      THEN <<key, counted[j][2] + 1>> ELSE counted[j]]
             ELSE Append(counted, <<key, 1>>)

\* Counter.get(key, 0)
CountOf(counter, key) ==
    IF \E j \in 1..Len(counter) : counter[j][1] = key
    THEN (CHOOSE item \in {counter[j] : j \in 1..Len(counter)} : item[1] = key)[2]
    ELSE 0

\* Counter.most_common(n): by count, largest first, equal counts in
\* insertion order
RECURSIVE most_common(_, _)
most_common(counter, n) ==
    IF n = 0 \/ counter = << >> THEN << >>
    ELSE LET top == CHOOSE j \in 1..Len(counter) :
                        /\ \A k \in 1..Len(counter) : counter[k][2] <= counter[j][2]
                        /\ \A k \in 1..(j - 1) : counter[k][2] < counter[j][2]
             others == [k \in 1..(Len(counter) - 1) |->
                           IF k < top THEN counter[k] ELSE counter[k + 1]]
         IN  <<counter[top]>> \o most_common(others, n - 1)

\* the first n items of a list: items[:n]
Take(items, n) == SubSeq(items, 1, Min(n, Len(items)))

\* [f(i) for i in incidents]
Map(items, f(_)) == [j \in 1..Len(items) |-> f(items[j])]

\* i.get("event_type") or i.get("type", "other"), line 71
TypeOrOther(i) == IF i.type = "absent" THEN "other" ELSE i.type
\* i.get("event_type", i.get("type")), lines 234 and 288
TypeOrNone(i) == IF i.type = "absent" THEN "None" ELSE i.type
\* i.get("area_name", "Unknown"), lines 74 and 305
AreaOrUnknown(i) == IF i.area_name = "absent" THEN "Unknown" ELSE i.area_name

\* round(x) of Python for x = num / den, den > 0: to the nearest integer, a
\* tie to the even one
RoundHalfEven(num, den) ==
    LET q == num \div den
        r == num - q * den
    IN  IF 2 * r < den THEN q
        ELSE IF 2 * r > den THEN q + 1
        ELSE IF q % 2 = 0 THEN q ELSE q + 1

Abs(x) == IF x < 0 THEN -x ELSE x

\* TrendRecord with an empty first half always reported as a rise of 100%
TrendRecord_EmptyFirstRises(first_half, second_half) ==
    LET change_pct == IF first_half = 0
                      THEN 100
                      ELSE RoundHalfEven((second_half - first_half) * 100, first_half)
    IN  [direction |-> IF change_pct > 10 THEN "increasing"
                       ELSE IF change_pct < -10 THEN "decreasing"
                       ELSE "stable",
         change_percent |-> change_pct,
         first_half_count |-> first_half,
         second_half_count |-> second_half]

\* _calculate_trend, lines 164-176: the trend of the two half counts
TrendRecord(first_half, second_half) ==
    LET change_pct == IF first_half = 0
                      THEN (IF second_half > 0 THEN 100 ELSE 0)
                      ELSE RoundHalfEven((second_half - first_half) * 100, first_half)
    IN  [direction |-> IF change_pct > 10 THEN "increasing"
                       ELSE IF change_pct < -10 THEN "decreasing"
                       ELSE "stable",
         change_percent |-> change_pct,
         first_half_count |-> first_half,
         second_half_count |-> second_half]

\* _calculate_trend, lines 153-176; now is datetime.now() at line 155 and
\* clock is what the later calls of _parse_time read
_calculate_trend(incidents, hours, now, clock) ==
    LET half == now - (hours * TicksPerHour) \div 2
        start == now - hours * TicksPerHour
        created(i) == _parse_time(i.createdAt, clock)
        InFirst(i) == start < created(i) /\ created(i) <= half
        InSecond(i) == half < created(i) /\ created(i) <= now
    IN  TrendRecord(Len(SelectSeq(incidents, InFirst)),
                    Len(SelectSeq(incidents, InSecond)))

\* 's' if n != 1 else ''
Plural(n) == IF n # 1 THEN "s" ELSE ""

\* " ".join(parts)
RECURSIVE JoinParts(_)
JoinParts(parts) ==
    IF parts = << >> THEN ""
    ELSE IF Len(parts) = 1 THEN parts[1]
    ELSE parts[1] \o " " \o JoinParts(Tail(parts))

\* type_labels.get(top_type, top_type), lines 196-199
type_labels(top_type) ==
    CASE top_type = "traffic" -> "traffic congestion"
      [] top_type = "water"   -> "water/drainage issues"
      [] top_type = "garbage" -> "waste management"
      [] top_type = "light"   -> "streetlight outages"
      [] top_type = "road"    -> "road damage"
      [] top_type = "noise"   -> "noise complaints"
      [] OTHER -> top_type

\* a prediction's p.get("probability", 0) > threshold, in hundredths
MoreLikelyThan(p, threshold) == p.probability > threshold

\* _generate_narrative, lines 178-221
_generate_narrative(total_active, critical, pending, type_dist, hotspots, trend, predictions) ==
    LET status == IF critical >= 3
                  THEN <<"ALERT: " \o ToString(critical)
                         \o " critical incidents require immediate attention.">>
                  ELSE IF total_active = 0
                  THEN <<"City systems operating normally. No active incidents reported.">>
                  ELSE <<"Currently tracking " \o ToString(total_active)
                         \o " active incident" \o Plural(total_active) \o ".">>
        top == most_common(type_dist, 1)
        primary == IF type_dist # << >>
                   THEN <<"Primary concern: " \o type_labels(top[1][1])
                          \o " (" \o ToString(top[1][2]) \o " reports).">>
                   ELSE << >>
        hotspot == IF hotspots # << >> /\ hotspots[1][2] >= 3
                   THEN <<"Hotspot: " \o hotspots[1][1] \o " area with "
                          \o ToString(hotspots[1][2]) \o " active issues.">>
                   ELSE << >>
        rate == IF trend.direction = "increasing"
                THEN <<"Incident rate is increasing (" \o ToString(trend.change_percent)
                       \o "% in the last period).">>
                ELSE IF trend.direction = "decreasing"
                THEN <<"Incident rate decreasing (" \o ToString(Abs(trend.change_percent))
                       \o "% improvement).">>
                ELSE << >>
        review == IF pending > 0
                  THEN <<ToString(pending) \o " incident" \o Plural(pending)
                         \o " awaiting admin review.">>
                  ELSE << >>
        IsHighRisk(p) == MoreLikelyThan(p, 70)
        high_risk == Len(SelectSeq(predictions, IsHighRisk))
        predicted == IF high_risk > 0
                     THEN <<"AI predicts " \o ToString(high_risk) \o " high-risk event"
                            \o Plural(high_risk) \o " in the coming hours.">>
                     ELSE << >>
    IN  JoinParts(status \o primary \o hotspot \o rate \o review \o predicted)

\* resource_map.get(primary, 'response team'), lines 237-243 and 248
resource_map(primary) ==
    CASE primary = "traffic" -> "traffic police deployment"
      [] primary = "water"   -> "drainage/water supply team"
      [] primary = "garbage" -> "sanitation crew dispatch"
      [] primary = "light"   -> "electrical maintenance team"
      [] primary = "road"    -> "road repair crew"
      [] OTHER -> "response team"

\* datetime.now().hour
HourOfDay(clock) == (clock \div TicksPerHour) % 24

\* _generate_recommendations, lines 223-277; clock is datetime.now() at
\* line 266
_generate_recommendations(incidents, predictions, type_dist, hotspots, clock) ==
    LET HotspotRec(spot) ==
            LET InArea(i) == i.area_name = spot[1] /\ ~i.resolved
                types == Counter(Map(SelectSeq(incidents, InArea), TypeOrNone))
                primary == IF types # << >> THEN most_common(types, 1)[1][1] ELSE "general"
            IN  [priority |-> IF spot[2] >= 5 THEN "high" ELSE "medium",
                 area |-> spot[1],
                 action |-> "Deploy " \o resource_map(primary) \o " to " \o spot[1],
                 reason |-> ToString(spot[2]) \o " active incidents, primarily " \o primary]
        IsHot(spot) == spot[2] >= 3
        for_hotspots == Map(SelectSeq(Take(hotspots, 3), IsHot), HotspotRec)
        PredictionRec(p) ==
            [priority |-> "medium",
             area |-> p.area_name,
             action |-> "Pre-position resources for predicted " \o p.type
                        \o " in " \o p.area_name,
             reason |-> "AI prediction: " \o ToString(p.probability) \o "% probability"]
        IsLikely(p) == MoreLikelyThan(p, 60)
        for_predictions == Map(SelectSeq(Take(predictions, 3), IsLikely), PredictionRec)
        hour == HourOfDay(clock)
        traffic == CountOf(type_dist, "traffic")
        for_rush_hour ==
            IF ((7 <= hour /\ hour <= 10) \/ (17 <= hour /\ hour <= 20)) /\ traffic >= 2
            THEN <<[priority |-> "medium",
                    area |-> "City-wide",
                    action |-> "Activate peak-hour traffic management protocol",
                    reason |-> "Rush hour period with " \o ToString(traffic)
                               \o " traffic incidents"]>>
            ELSE << >>
    IN  Take(for_hotspots \o for_predictions \o for_rush_hour, 5)

\* ExceedsShare with the threshold itself included
ExceedsShare_Inclusive(count, total, tenths) ==
    total > 0 /\ 10 * count >= tenths * total

\* total > 0 and count / total > 0.6 (tenths = 6, line 295) or 0.4 (tenths = 4,
\* line 307)
ExceedsShare(count, total, tenths) ==
    total > 0 /\ 10 * count > tenths * total

\* IsTypeSpike with two occurrences enough
IsTypeSpike_TwoSuffice(count, total) ==
    ExceedsShare(count, total, 6) /\ count >= 2

\* line 295: ratio > 0.6 and count >= 3
IsTypeSpike(count, total) ==
    ExceedsShare(count, total, 6) /\ count >= 3

\* _detect_anomalies, lines 279-328; now is datetime.now() at line 282 and
\* clock is what the later calls of _parse_time read
_detect_anomalies(incidents, hours, now, clock) ==
    LET cutoff == now - hours * TicksPerHour
        IsRecent(i) == _parse_time(i.createdAt, clock) > cutoff
        recent == SelectSeq(incidents, IsRecent)
        total == Len(recent)
        IsSpike(item) == IsTypeSpike(item[2], total)
        TypeSpike(item) == [type |-> "type_spike", severity |-> "warning",
                            affected |-> item[1]]
        IsCluster(item) == item[2] >= 4 /\ ExceedsShare(item[2], total, 4)
        AreaCluster(item) == [type |-> "area_cluster", severity |-> "warning",
                              affected |-> item[1]]
        \* rate_per_hour = len(recent) / max(hours, 1)
        rate_spike ==
            IF total >= 10 /\ total > 2 * Max(hours, 1)
            THEN <<[type |-> "rate_spike",
                    severity |-> IF total > 5 * Max(hours, 1) THEN "critical" ELSE "warning",
                    affected |-> "rate"]>>
            ELSE << >>
    IN  Map(SelectSeq(Counter(Map(recent, TypeOrNone)), IsSpike), TypeSpike)
        \o Map(SelectSeq(Counter(Map(recent, AreaOrUnknown)), IsCluster), AreaCluster)
        \o rate_spike

\* HealthPoints with the deduction for active incidents added instead
HealthPoints_ActiveRewarded(active, critical, trend, predictions) ==
    100 + Min(30, active * 2) - Min(25, critical * 8)
    + (IF trend.direction = "increasing" THEN - Min(15, Abs(trend.change_percent) \div 5)
       ELSE IF trend.direction = "decreasing" THEN Min(10, Abs(trend.change_percent) \div 10)
       ELSE 0)
    - Min(10, predictions * 2)

\* _calculate_health_score before its last line: the unclamped score
HealthPoints(active, critical, trend, predictions) ==
    100 - Min(30, active * 2) - Min(25, critical * 8)
    + (IF trend.direction = "increasing" THEN - Min(15, Abs(trend.change_percent) \div 5)
       ELSE IF trend.direction = "decreasing" THEN Min(10, Abs(trend.change_percent) \div 10)
       ELSE 0)
    - Min(10, predictions * 2)

\* _calculate_health_score without the clamp of line 351
HealthScore_NoClamp(active, critical, trend, predictions) ==
    HealthPoints(active, critical, trend, predictions)

\* _calculate_health_score, lines 330-351
_calculate_health_score(active, critical, trend, predictions) ==
    Max(0, Min(100, HealthPoints(active, critical, trend, predictions)))

\* _health_label, lines 353-358
_health_label(score) ==
    IF score >= 85 THEN "Excellent"
    ELSE IF score >= 70 THEN "Good"
    ELSE IF score >= 55 THEN "Fair"
    ELSE IF score >= 40 THEN "Concerning"
    ELSE "Critical"

\* the marker of a call of the summarizer that ended with an exception
SummaryRaised == [narrative |-> "raised"]

\* The successive reads of datetime.now() in one call: read number k returns
\* now + k * drift, drift 0 when the clock is not seen to move during the
\* call and 1 when every read is later than the one before.
\*   0: line 58        1: _parse_time called from line 62
\*   2: line 155       3: _parse_time called from lines 159-162
\*   4: line 266       5: line 282
\*   6: _parse_time called from line 285
ClockRead(now, drift, k) == now + k * drift

\* generate_executive_summary, lines 49-121, called when datetime.now() is now
generate_executive_summary(incidents, predictions, recent_hours, now, drift) ==
    IF \E j \in 1..Len(incidents) : ParseRaises(incidents[j].createdAt)
    THEN SummaryRaised
    ELSE
    LET cutoff == now - recent_hours * TicksPerHour
        IsRecent(i) == _parse_time(i.createdAt, ClockRead(now, drift, 1)) > cutoff
        IsActive(i) == ~i.resolved
        IsCritical(i) == i.severity >= 70 /\ ~i.resolved
        IsPending(i) == i.status = "pending"
        total_active == Len(SelectSeq(incidents, IsActive))
        total_recent == Len(SelectSeq(incidents, IsRecent))
        critical_count == Len(SelectSeq(incidents, IsCritical))
        pending_count == Len(SelectSeq(incidents, IsPending))
        type_dist == Counter(Map(SelectSeq(incidents, IsActive), TypeOrOther))
        area_counts == Counter(Map(SelectSeq(incidents, IsActive), AreaOrUnknown))
        hotspots == most_common(area_counts, 5)
        trend == _calculate_trend(incidents, recent_hours,
                                  ClockRead(now, drift, 2), ClockRead(now, drift, 3))
        health_score == _calculate_health_score(total_active, critical_count, trend,
                                                Len(predictions))
    IN  [period_hours |-> recent_hours,
         health_score |-> health_score,
         health_label |-> _health_label(health_score),
         metrics |-> [total_active |-> total_active,
                      new_last_period |-> total_recent,
                      critical |-> critical_count,
                      pending_review |-> pending_count,
                      predictions_active |-> Len(predictions)],
         type_distribution |-> type_dist,
         hotspot_areas |-> hotspots,
         trend |-> trend,
         narrative |-> _generate_narrative(total_active, critical_count, pending_count,
                                           type_dist, hotspots, trend, predictions),
         recommendations |-> _generate_recommendations(incidents, predictions, type_dist,
                                                       hotspots, ClockRead(now, drift, 4)),
         anomalies |-> _detect_anomalies(incidents, recent_hours,
                                         ClockRead(now, drift, 5), ClockRead(now, drift, 6))]

\* AREAS, lines 27-38, and the default of line 128
AREAS(area_name) ==
    CASE area_name = "Alkapuri" -> [pop |-> 45000, zone |-> "Central", critical_infra |-> TRUE]
      [] area_name = "Gotri" -> [pop |-> 62000, zone |-> "West", critical_infra |-> FALSE]
      [] area_name = "Akota" -> [pop |-> 38000, zone |-> "South", critical_infra |-> FALSE]
      [] area_name = "Fatehgunj" -> [pop |-> 55000, zone |-> "Central", critical_infra |-> TRUE]
      [] area_name = "Manjalpur" -> [pop |-> 72000, zone |-> "South", critical_infra |-> FALSE]
      [] area_name = "Sayajigunj" -> [pop |-> 48000, zone |-> "Central", critical_infra |-> TRUE]
      [] area_name = "Karelibaug" -> [pop |-> 52000, zone |-> "East", critical_infra |-> FALSE]
      [] area_name = "Waghodia Road" -> [pop |-> 41000, zone |-> "East", critical_infra |-> FALSE]
      [] area_name = "Vasna" -> [pop |-> 35000, zone |-> "West", critical_infra |-> FALSE]
      [] area_name = "Makarpura" -> [pop |-> 58000, zone |-> "South", critical_infra |-> TRUE]
      [] OTHER -> [pop |-> 40000, zone |-> "Unknown", critical_infra |-> FALSE]

\* _area_recommendation, lines 366-373
_area_recommendation(area, risk_level) ==
    CASE risk_level = "critical" ->
             "Immediate response required in " \o area \o ". Escalate to zone commander."
      [] risk_level = "high" ->
             "Increased monitoring and resource allocation recommended for " \o area \o "."
      [] risk_level = "moderate" ->
             "Standard response protocols active for " \o area \o ". Monitor for escalation."
      [] OTHER -> area \o " operating normally. Continue routine monitoring."

\* active with the resolved incidents of the area kept
active_WithResolved(area_name, incidents) ==
    LET InArea(i) == i.area_name = area_name
    IN  SelectSeq(incidents, InArea)

\* area_incidents and active, lines 125-126
active(area_name, incidents) ==
    LET InArea(i) == i.area_name = area_name
        IsActive(i) == ~i.resolved
    IN  SelectSeq(SelectSeq(incidents, InArea), IsActive)

\* generate_area_briefing, lines 123-151
generate_area_briefing(area_name, incidents) ==
    LET actives == active(area_name, incidents)
        area_info == AREAS(area_name)
        type_dist == Counter(Map(actives, TypeOrOther))
        primary_issue == IF type_dist # << >> THEN most_common(type_dist, 1)[1]
                         ELSE <<"none", 0>>
        AnyAtLeast(severity) == \E j \in 1..Len(actives) : actives[j].severity >= severity
        risk_level == IF Len(actives) >= 5 \/ AnyAtLeast(80) THEN "critical"
                      ELSE IF Len(actives) >= 3 \/ AnyAtLeast(60) THEN "high"
                      ELSE IF Len(actives) >= 1 THEN "moderate"
                      ELSE "low"
    IN  [area |-> area_name,
         zone |-> area_info.zone,
         population_affected |-> area_info.pop,
         critical_infrastructure |-> area_info.critical_infra,
         active_incidents |-> Len(actives),
         primary_issue |-> primary_issue[1],
         risk_level |-> risk_level,
         issue_breakdown |-> type_dist,
         recommendation |-> _area_recommendation(area_name, risk_level)]

(***************************************************************************)
(* classifier.py: _get_model and classify_issue, called from NumThreads    *)
(* threads.  One action per step between two accesses of shared state.     *)
(***************************************************************************)
\* texts the concurrent callers pass
ClassifierTexts == {"traffic jam", "hello"}

\* what predict_proba / argmax of a loaded model may return (line 59): the
\* model is a black box, any of its classes with any probability
ModelOutputs == {[category |-> "road", confidence |-> 90]}

\* the marker of a call that ended with an exception instead of a value
Raised == [category |-> "raised", confidence |-> 0]

\* PredictFailed without the except clause: the exception reaches the caller
PredictFailed_Propagates(text) == Raised

\* lines 60-64: a failed prediction is logged and falls through to the rules
PredictFailed(text) == RuleBased(text)

\* line 51: classify_issue(text) starts and calls _get_model()
Call(t, text) ==
    /\ pc[t] = "idle"
    /\ calls < MaxCalls
    /\ calls' = calls + 1
    /\ pc' = [pc EXCEPT ![t] = "check1"]
    /\ arg' = [arg EXCEPT ![t] = text]
    /\ UNCHANGED <<model_file, _model, _model_loaded, _model_lock, got, ret,
                   opens, attempts, slow_entries, predict_raised,
                   tvars, fvars, mvars>>

\* lines 17-18: the unlocked fast path
Check1(t) ==
    /\ pc[t] = "check1"
    /\ IF _model_loaded
       THEN /\ got' = [got EXCEPT ![t] = _model]
            /\ pc' = [pc EXCEPT ![t] = "predict"]
       ELSE /\ got' = got
            /\ pc' = [pc EXCEPT ![t] = "acquire"]
    /\ slow_entries' = IF _model_loaded THEN slow_entries ELSE slow_entries + 1
    /\ UNCHANGED <<model_file, _model, _model_loaded, _model_lock, arg, ret,
                   calls, opens, attempts, predict_raised,
                   tvars, fvars, mvars>>

\* line 19: with _model_lock
Acquire(t) ==
    /\ pc[t] = "acquire"
    /\ _model_lock = 0
    /\ _model_lock' = t
    /\ pc' = [pc EXCEPT ![t] = "check2"]
    /\ UNCHANGED <<model_file, _model, _model_loaded, arg, got, ret,
                   calls, opens, attempts, slow_entries, predict_raised,
                   tvars, fvars, mvars>>

\* Check2 without its test of _model_loaded: every caller that got the lock loads
Check2_NoRecheck(t) ==
    /\ pc[t] = "check2"
    /\ pc' = [pc EXCEPT ![t] = "exists"]
    /\ UNCHANGED <<model_file, _model, _model_loaded, _model_lock, arg, got, ret,
                   calls, opens, attempts, slow_entries, predict_raised,
                   tvars, fvars, mvars>>

\* lines 20-21: the second check, under the lock
Check2(t) ==
    /\ pc[t] = "check2"
    /\ IF _model_loaded
       THEN /\ got' = [got EXCEPT ![t] = _model]
            /\ _model_lock' = 0
            /\ pc' = [pc EXCEPT ![t] = "predict"]
       ELSE /\ got' = got
            /\ _model_lock' = _model_lock
            /\ pc' = [pc EXCEPT ![t] = "exists"]
    /\ UNCHANGED <<model_file, _model, _model_loaded, arg, ret,
                   calls, opens, attempts, slow_entries, predict_raised,
                   tvars, fvars, mvars>>

\* Exists with _model_loaded set on entry, before the model is assigned
Exists_LoadedFirst(t) ==
    /\ pc[t] = "exists"
    /\ attempts' = attempts + 1
    /\ _model_loaded' = TRUE
    /\ pc' = [pc EXCEPT ![t] = IF model_file # "missing" THEN "open" ELSE "setloaded"]
    /\ UNCHANGED <<model_file, _model, _model_lock, arg, got, ret,
                   calls, opens, slow_entries, predict_raised,
                   tvars, fvars, mvars>>

\* lines 22-23 and 28-29: the load block is entered; os.path.exists
Exists(t) ==
    /\ pc[t] = "exists"
    /\ attempts' = attempts + 1
    /\ pc' = [pc EXCEPT ![t] = IF model_file # "missing" THEN "open" ELSE "setloaded"]
    /\ UNCHANGED <<model_file, _model, _model_loaded, _model_lock, arg, got, ret,
                   calls, opens, slow_entries, predict_raised,
                   tvars, fvars, mvars>>

\* lines 24-27 and 30-31: open + pickle.load; an exception (a file that is
\* still being written) is logged and leaves _model as it was
Open(t) ==
    /\ pc[t] = "open"
    /\ opens' = opens + 1
    /\ _model' = IF model_file = "valid" THEN "model" ELSE _model
    /\ pc' = [pc EXCEPT ![t] = "setloaded"]
    /\ UNCHANGED <<model_file, _model_loaded, _model_lock, arg, got, ret,
                   calls, attempts, slow_entries, predict_raised,
                   tvars, fvars, mvars>>

\* lines 32-33: _model_loaded = True; return _model; the lock is released
SetLoaded(t) ==
    /\ pc[t] = "setloaded"
    /\ _model_loaded' = TRUE
    /\ got' = [got EXCEPT ![t] = _model]
    /\ _model_lock' = 0
    /\ pc' = [pc EXCEPT ![t] = "predict"]
    /\ UNCHANGED <<model_file, _model, arg, ret, calls, opens, attempts,
                   slow_entries, predict_raised,
                   tvars, fvars, mvars>>

\* lines 52-59: the model predicts
PredictOk(t) ==
    /\ pc[t] = "predict"
    /\ got[t] # None
    /\ \E out \in ModelOutputs : ret' = [ret EXCEPT ![t] = out]
    /\ pc' = [pc EXCEPT ![t] = "done"]
    /\ UNCHANGED <<model_file, _model, _model_loaded, _model_lock, arg, got,
                   calls, opens, attempts, slow_entries, predict_raised,
                   tvars, fvars, mvars>>

\* lines 52-62 then 64-80: the prediction raises
PredictRaises(t) ==
    /\ pc[t] = "predict"
    /\ got[t] # None
    /\ predict_raised' = [predict_raised EXCEPT ![t] = TRUE]
    /\ ret' = [ret EXCEPT ![t] = PredictFailed(arg[t])]
    /\ pc' = [pc EXCEPT ![t] = "done"]
    /\ UNCHANGED <<model_file, _model, _model_loaded, _model_lock, arg, got,
                   calls, opens, attempts, slow_entries,
                   tvars, fvars, mvars>>

\* line 52 false, then lines 64-80: no model, the rules decide
NoModel(t) ==
    /\ pc[t] = "predict"
    /\ got[t] = None
    /\ ret' = [ret EXCEPT ![t] = RuleBased(arg[t])]
    /\ pc' = [pc EXCEPT ![t] = "done"]
    /\ UNCHANGED <<model_file, _model, _model_loaded, _model_lock, arg, got,
                   calls, opens, attempts, slow_entries, predict_raised,
                   tvars, fvars, mvars>>

\* the caller (main.py line 90) takes the pair; the thread is free again
Return(t) ==
    /\ pc[t] = "done"
    /\ pc' = [pc EXCEPT ![t] = "idle"]
    /\ arg' = [arg EXCEPT ![t] = None]
    /\ got' = [got EXCEPT ![t] = None]
    /\ ret' = [ret EXCEPT ![t] = NoPair]
    /\ predict_raised' = [predict_raised EXCEPT ![t] = FALSE]
    /\ UNCHANGED <<model_file, _model, _model_loaded, _model_lock,
                   calls, opens, attempts, slow_entries,
                   tvars, fvars, mvars>>

\* train_model.py lines 152-153: open(CLASSIFIER_PATH, 'wb') truncates the
\* file, pickle.dump then completes it
SaveModelBegin ==
    /\ model_file \in {"missing", "valid"}
    /\ model_file' = "partial"
    /\ UNCHANGED <<_model, _model_loaded, _model_lock, pc, arg, got, ret,
                   calls, opens, attempts, slow_entries, predict_raised,
                   tvars, fvars, mvars>>

SaveModelEnd ==
    /\ model_file = "partial"
    /\ model_file' = "valid"
    /\ UNCHANGED <<_model, _model_loaded, _model_lock, pc, arg, got, ret,
                   calls, opens, attempts, slow_entries, predict_raised,
                   tvars, fvars, mvars>>

ClassifierInit ==
    /\ _model = None
    /\ _model_loaded = FALSE
    /\ _model_lock = 0
    /\ pc = [t \in Threads |-> "idle"]
    /\ arg = [t \in Threads |-> None]
    /\ got = [t \in Threads |-> None]
    /\ ret = [t \in Threads |-> NoPair]
    /\ calls = 0
    /\ opens = 0
    /\ attempts = 0
    /\ slow_entries = 0
    /\ predict_raised = [t \in Threads |-> FALSE]

ClassifierNext ==
    \/ \E t \in Threads : \E text \in ClassifierTexts : Call(t, text)
    \/ \E t \in Threads : Check1(t)
    \/ \E t \in Threads : Acquire(t)
    \/ \E t \in Threads : Check2(t)
    \/ \E t \in Threads : Exists(t)
    \/ \E t \in Threads : Open(t)
    \/ \E t \in Threads : SetLoaded(t)
    \/ \E t \in Threads : PredictOk(t)
    \/ \E t \in Threads : PredictRaises(t)
    \/ \E t \in Threads : NoModel(t)
    \/ \E t \in Threads : Return(t)
    \/ SaveModelBegin
    \/ SaveModelEnd

(***************************************************************************)
(* One text through classify_issue (no trained model: the rule path) and   *)
(* through analyze_sentiment.                                              *)
(***************************************************************************)
\* lines 64-80 as classify_issue runs them when _get_model() returned None
ClassifyIssue ==
    /\ t_class = NoPair
    /\ t_class' = RuleBased(t_text)
    /\ UNCHANGED <<t_text, t_sent, cvars, fvars, mvars>>

AnalyzeSentiment ==
    /\ t_sent = NoProfile
    /\ t_sent' \in analyze_sentiment(t_text)
    /\ UNCHANGED <<t_text, t_class, cvars, fvars, mvars>>

Vocabulary ==
    <<"Water pipeline", "traffic jam stuck vehicle congestion", "road blocked", "VERY",
      "garbage smell dirty leak", "urgent!!!", "urgent fire in ward 12 !!!!!",
      "near Genda circle,", "dirty lamp">>

ScenarioText == "Water pipeline burst near Genda circle, urgent!!!"

\* the tokens of ws joined by single spaces
RECURSIVE Join(_)
Join(ws) == IF Len(ws) = 0 THEN ""
            ELSE IF Len(ws) = 1 THEN Vocabulary[ws[1]]
            ELSE Vocabulary[ws[1]] \o " " \o Join(Tail(ws))

TextInputs ==
    {Join(ws) : ws \in UNION {[1..n -> 1..Len(Vocabulary)] : n \in 0..MaxTokens}}
    \cup {ScenarioText, "   ", " VERY "}

TextInit ==
    /\ t_text \in TextInputs
    /\ t_class = NoPair
    /\ t_sent = NoProfile

TextNext == ClassifyIssue \/ AnalyzeSentiment

(***************************************************************************)
(* Calls of FusionEngine.calculate_risk and simulate_gotri_scenario.       *)
(***************************************************************************)
Hours == 0..23
\* the minutes of a call in that hour: the full hour, and the half hour in
\* the hours 5, 10 and 20
Minutes(hour) == IF hour \in {5, 10, 20} THEN {0, 30} ELSE {0}

\* the scores a generated inputs dict gives a signal (hundredths): below 0,
\* on and just above the 0.6 of the correlation boost, above 1; an explicit
\* 0 where a present key is treated differently from an absent one
SignalValues(signal) ==
    IF signal \in CorrelatedSignals THEN {-50, 60, 61, 250}
    ELSE IF signal = "history" THEN {80}
    ELSE {0, 50}

\* inputs dicts with three correlated signals: all three above 0.6, and two
\* above with one on it, the other signals present
CorrelatedInputs ==
    {("time_series" :> 61 @@ "nlp" :> 61 @@ "anomaly" :> 61),
     ("time_series" :> 61 @@ "nlp" :> 61 @@ "anomaly" :> 60
        @@ "history" :> 80 @@ "weather" :> 50 @@ "temporal" :> 50)}

SignalSets ==
    UNION {{m \in [S -> {-50, 0, 50, 60, 61, 80, 250}] : \A k \in S : m[k] \in SignalValues(k)} :
           S \in {S \in SUBSET Signals : Cardinality(S) <= MaxSignals}}
    \cup CorrelatedInputs

\* a caller evaluates calculate_risk(inputs) at the hour f_hour
CalculateRisk ==
    /\ f_result = NoRisk
    /\ f_result' \in calculate_risk(f_inputs, f_hour)
    /\ f_op' = "calculate_risk"
    /\ UNCHANGED <<f_inputs, f_hour, f_minute, cvars, tvars, mvars>>

\* within the same hour the caller evaluates a dict that differs in one
\* signal, which is larger
RaiseSignal(signal, value) ==
    /\ f_result # NoRisk
    /\ signal \in DOMAIN f_inputs
    /\ value \in SignalValues(signal)
    /\ value > f_inputs[signal]
    /\ f_inputs' = [f_inputs EXCEPT ![signal] = value]
    /\ f_result' \in calculate_risk(f_inputs', f_hour)
    /\ f_op' = "raised"
    /\ UNCHANGED <<f_hour, f_minute, cvars, tvars, mvars>>

\* the demo is run, in the current hour
SimulateGotri ==
    /\ f_op # "simulate_gotri_scenario"
    /\ f_result' \in simulate_gotri_scenario(f_hour)
    /\ f_inputs' = GotriInputs
    /\ f_op' = "simulate_gotri_scenario"
    /\ UNCHANGED <<f_hour, f_minute, cvars, tvars, mvars>>

\* Two calls compute with the same floats wherever their operands are the
\* same: the weather imputed from the same scores rounds the same way, and
\* with the same temporal factor the whole result is the same.
SameFloats(first, second) ==
    /\ second.breakdown.weather = first.breakdown.weather
    /\ second.breakdown.temporal = first.breakdown.temporal => second = first

\* the demo is run again, when datetime.now().hour is hour
SimulateGotriAgain(hour) ==
    /\ f_op = "simulate_gotri_scenario"
    /\ f_hour' = hour
    /\ f_minute' \in Minutes(hour)
    /\ f_result' \in simulate_gotri_scenario(hour)
    /\ SameFloats(f_result, f_result')
    /\ UNCHANGED <<f_inputs, f_op, cvars, tvars, mvars>>

FusionInit ==
    /\ f_inputs \in SignalSets
    /\ f_hour \in Hours
    /\ f_minute \in Minutes(f_hour)
    /\ f_result = NoRisk
    /\ f_op = "none"

FusionNext ==
    \/ CalculateRisk
    \/ \E signal \in Signals : \E value \in SignalValues(signal) : RaiseSignal(signal, value)
    \/ SimulateGotri
    \/ \E hour \in Hours : SimulateGotriAgain(hour)

(***************************************************************************)
(* Calls of generate_executive_summary.                                    *)
(***************************************************************************)
\* the incidents a generated list is made of, for a first call at now: a
\* fresh critical one, a resolved one created an hour and a half ago, three
\* whose createdAt is not a time, one created exactly an hour ago and one
\* dated an hour ahead
IncidentCatalog(now) ==
    <<[createdAt |-> CreatedAt(now - TicksPerHour \div 4), resolved |-> FALSE,
       severity |-> 80, status |-> "pending", type |-> "traffic", area_name |-> "Gotri"],
      [createdAt |-> CreatedAt(now - (3 * TicksPerHour) \div 2), resolved |-> TRUE,
       severity |-> 30, status |-> "approved", type |-> "water", area_name |-> "Akota"],
      [createdAt |-> Missing, resolved |-> FALSE,
       severity |-> 30, status |-> "approved", type |-> "traffic", area_name |-> "Gotri"],
      [createdAt |-> Unparseable, resolved |-> FALSE,
       severity |-> 80, status |-> "pending", type |-> "water", area_name |-> "absent"],
      [createdAt |-> OutOfRange, resolved |-> FALSE,
       severity |-> 30, status |-> "approved", type |-> "absent", area_name |-> "Akota"],
      [createdAt |-> CreatedAt(now - TicksPerHour), resolved |-> FALSE,
       severity |-> 30, status |-> "approved", type |-> "traffic", area_name |-> "Akota"],
      [createdAt |-> CreatedAt(now + TicksPerHour), resolved |-> FALSE,
       severity |-> 30, status |-> "approved", type |-> "water", area_name |-> "Gotri"]>>

IncidentLists(now) ==
    LET catalog == IncidentCatalog(now)
    IN  {[j \in 1..Len(picked) |-> catalog[picked[j]]] :
            picked \in UNION {[1..n -> 1..Len(catalog)] : n \in 0..MaxIncidents}}

PredictionLists ==
    {<< >>, <<[probability |-> 75, area_name |-> "Gotri", type |-> "traffic"]>>}

RecentHours == {1, 2, 24}

\* the clock is or is not seen to move between two reads of one call
Drifts == {0, 1}

\* datetime.now() at the first call: each hour of a day
StartTimes == {(24 + hour) * TicksPerHour : hour \in 0..23}

\* how much later the same call is repeated
LaterBy == 12 * TicksPerHour

GenerateSummary ==
    /\ s_result = NoSummary
    /\ \E drift \in Drifts :
           s_result' = generate_executive_summary(s_incidents, s_predictions,
                                                  s_hours, s_now, drift)
    /\ s_op' = "summary"
    /\ UNCHANGED <<s_incidents, s_predictions, s_hours, s_now, hvars, avars,
                   rvars, bvars, trvars, cvars, tvars, fvars>>

\* the call is repeated later with the same incidents, predictions and hours
GenerateSummaryAgain ==
    /\ s_op = "summary"
    /\ s_now' = s_now + LaterBy
    /\ \E drift \in Drifts :
           s_result' = generate_executive_summary(s_incidents, s_predictions,
                                                  s_hours, s_now', drift)
    /\ s_op' = "again"
    /\ UNCHANGED <<s_incidents, s_predictions, s_hours, hvars, avars,
                   rvars, bvars, trvars, cvars, tvars, fvars>>

SummaryInit ==
    /\ s_now \in StartTimes
    /\ s_incidents \in IncidentLists(s_now)
    /\ s_predictions \in PredictionLists
    /\ s_hours \in RecentHours
    /\ s_result = NoSummary
    /\ s_op = "none"

SummaryNext == GenerateSummary \/ GenerateSummaryAgain

(***************************************************************************)
(* Calls of _calculate_health_score on its own arguments.                  *)
(***************************************************************************)
CalculateHealthScore ==
    /\ h_op = "none"
    /\ h_score' = _calculate_health_score(h_active, h_critical, h_trend, h_predictions)
    /\ h_op' = "calculated"
    /\ UNCHANGED <<h_active, h_critical, h_trend, h_predictions, svars, avars,
                   rvars, bvars, trvars, cvars, tvars, fvars>>

\* the score of the same city with one more active issue
RaiseActive ==
    /\ h_op # "none"
    /\ h_active < MaxActive
    /\ h_active' = h_active + 1
    /\ h_score' = _calculate_health_score(h_active', h_critical, h_trend, h_predictions)
    /\ h_op' = "active_raised"
    /\ UNCHANGED <<h_critical, h_trend, h_predictions, svars, avars,
                   rvars, bvars, trvars, cvars, tvars, fvars>>

\* the score of the same city with one more of its active issues critical
RaiseCritical ==
    /\ h_op # "none"
    /\ h_critical < h_active
    /\ h_critical' = h_critical + 1
    /\ h_score' = _calculate_health_score(h_active, h_critical', h_trend, h_predictions)
    /\ h_op' = "critical_raised"
    /\ UNCHANGED <<h_active, h_trend, h_predictions, svars, avars,
                   rvars, bvars, trvars, cvars, tvars, fvars>>

HealthInit ==
    /\ h_active \in 0..MaxActive
    /\ h_critical \in 0..Min(h_active, MaxCritical)
    /\ h_trend \in {TrendRecord(first_half, second_half) :
                       first_half \in 0..MaxHalf, second_half \in 0..MaxHalf}
    /\ h_predictions \in 0..MaxPredictions
    /\ h_score = -1
    /\ h_op = "none"

HealthNext == CalculateHealthScore \/ RaiseActive \/ RaiseCritical

(***************************************************************************)
(* Calls of _detect_anomalies on a growing set of incidents.               *)
(***************************************************************************)
\* the kinds of incident: four recent ones by type and area, and an old one
AnomalyKinds ==
    <<[type |-> "traffic", area_name |-> "Gotri", recent |-> TRUE],
      [type |-> "traffic", area_name |-> "Akota", recent |-> TRUE],
      [type |-> "water", area_name |-> "Gotri", recent |-> TRUE],
      [type |-> "water", area_name |-> "Akota", recent |-> TRUE],
      [type |-> "garbage", area_name |-> "Gotri", recent |-> FALSE]>>

AnomalyHours == {1, 4, 24}

\* datetime.now() at the calls of _detect_anomalies
AnomalyNow == 36 * TicksPerHour

\* a recent incident is half an hour old, an old one thirty hours
AnomalyIncident(kind) ==
    [createdAt |-> CreatedAt(IF kind.recent THEN AnomalyNow - TicksPerHour \div 2
                             ELSE AnomalyNow - 30 * TicksPerHour),
     resolved |-> FALSE, severity |-> 30, status |-> "approved",
     type |-> kind.type, area_name |-> kind.area_name]

\* the incidents list: counts[k] incidents of kind k, kind after kind
RECURSIVE AnomalyIncidents(_, _)
AnomalyIncidents(counts, k) ==
    IF k > Len(AnomalyKinds) THEN << >>
    ELSE [j \in 1..counts[k] |-> AnomalyIncident(AnomalyKinds[k])]
         \o AnomalyIncidents(counts, k + 1)

RECURSIVE Sum(_)
Sum(numbers) == IF numbers = << >> THEN 0 ELSE Head(numbers) + Sum(Tail(numbers))

\* one more incident is reported
ReportIncident(k) ==
    /\ Sum(a_counts) < MaxReports
    /\ a_counts' = [a_counts EXCEPT ![k] = @ + 1]
    /\ a_anomalies' = NotDetected
    /\ UNCHANGED <<a_hours, svars, hvars, rvars, bvars, trvars, cvars, tvars, fvars>>

DetectAnomalies ==
    /\ a_anomalies = NotDetected
    /\ \E drift \in Drifts :
           a_anomalies' = _detect_anomalies(AnomalyIncidents(a_counts, 1), a_hours,
                                            AnomalyNow, AnomalyNow + drift)
    /\ UNCHANGED <<a_counts, a_hours, svars, hvars, rvars, bvars, trvars, cvars, tvars, fvars>>

AnomalyInit ==
    /\ a_counts = [k \in 1..Len(AnomalyKinds) |-> 0]
    /\ a_hours \in AnomalyHours
    /\ a_anomalies = NotDetected

AnomalyNext == (\E k \in 1..Len(AnomalyKinds) : ReportIncident(k)) \/ DetectAnomalies

(***************************************************************************)
(* Calls of _generate_recommendations on the active incidents of a city,   *)
(* with type_dist and hotspots computed as generate_executive_summary      *)
(* computes them (lines 71-75).                                            *)
(***************************************************************************)
\* the kinds of active incident: one type in each of three areas
RecKinds ==
    <<[type |-> "traffic", area_name |-> "Gotri"],
      [type |-> "water", area_name |-> "Akota"],
      [type |-> "garbage", area_name |-> "Vasna"]>>

RecIncident(kind) ==
    [createdAt |-> Missing, resolved |-> FALSE, severity |-> 30, status |-> "approved",
     type |-> kind.type, area_name |-> kind.area_name]

\* the incidents list: counts[k] incidents of kind k, kind after kind
RECURSIVE RecIncidents(_, _)
RecIncidents(counts, k) ==
    IF k > Len(RecKinds) THEN << >>
    ELSE [j \in 1..counts[k] |-> RecIncident(RecKinds[k])] \o RecIncidents(counts, k + 1)

\* a prediction with probability exactly 0.6, and a more likely one
RecPredictions ==
    {[probability |-> 60, area_name |-> "Akota", type |-> "water"],
     [probability |-> 75, area_name |-> "Gotri", type |-> "traffic"]}

RecPredictionLists == UNION {[1..n -> RecPredictions] : n \in 0..MaxRecPredictions}

\* datetime.now() at line 265: 07:00 and 12:00
RecClocks == {7 * TicksPerHour, 12 * TicksPerHour}

\* one more active incident is reported
ReportActive(k) ==
    /\ Sum(r_counts) < MaxRecIncidents
    /\ r_counts' = [r_counts EXCEPT ![k] = @ + 1]
    /\ r_recs' = NoRecs
    /\ UNCHANGED <<r_predictions, r_clock, svars, hvars, avars, bvars, trvars,
                   cvars, tvars, fvars>>

GenerateRecommendations ==
    /\ r_recs = NoRecs
    /\ LET incidents == RecIncidents(r_counts, 1)
           IsActive(i) == ~i.resolved
           type_dist == Counter(Map(SelectSeq(incidents, IsActive), TypeOrOther))
           area_counts == Counter(Map(SelectSeq(incidents, IsActive), AreaOrUnknown))
           hotspots == most_common(area_counts, 5)
       IN  r_recs' = _generate_recommendations(incidents, r_predictions, type_dist,
                                               hotspots, r_clock)
    /\ UNCHANGED <<r_counts, r_predictions, r_clock, svars, hvars, avars, bvars, trvars,
                   cvars, tvars, fvars>>

RecsInit ==
    /\ r_counts = [k \in 1..Len(RecKinds) |-> 0]
    /\ r_predictions \in RecPredictionLists
    /\ r_clock \in RecClocks
    /\ r_recs = NoRecs

RecsNext == (\E k \in 1..Len(RecKinds) : ReportActive(k)) \/ GenerateRecommendations

(***************************************************************************)
(* Calls of generate_area_briefing on a growing set of incidents.          *)
(***************************************************************************)
\* the kinds of incident: unresolved ones of Gotri by severity, a resolved
\* one of Gotri and an unresolved one of Akota
BriefingKinds ==
    <<[area_name |-> "Gotri", resolved |-> FALSE, severity |-> 30, type |-> "traffic"],
      [area_name |-> "Gotri", resolved |-> FALSE, severity |-> 60, type |-> "water"],
      [area_name |-> "Gotri", resolved |-> FALSE, severity |-> 80, type |-> "absent"],
      [area_name |-> "Gotri", resolved |-> TRUE, severity |-> 80, type |-> "water"],
      [area_name |-> "Akota", resolved |-> FALSE, severity |-> 80, type |-> "garbage"]>>

BriefingAreas == {"Gotri", "Akota", "Chhani"}

BriefingIncident(kind) ==
    [createdAt |-> Missing, resolved |-> kind.resolved, severity |-> kind.severity,
     status |-> "approved", type |-> kind.type, area_name |-> kind.area_name]

\* the incidents list: counts[k] incidents of kind k, kind after kind
RECURSIVE BriefingIncidents(_, _)
BriefingIncidents(counts, k) ==
    IF k > Len(BriefingKinds) THEN << >>
    ELSE [j \in 1..counts[k] |-> BriefingIncident(BriefingKinds[k])]
         \o BriefingIncidents(counts, k + 1)

\* one more incident is recorded
RecordIncident(k) ==
    /\ Sum(b_counts) < MaxBriefingIncidents
    /\ b_counts' = [b_counts EXCEPT ![k] = @ + 1]
    /\ b_briefing' = NoBriefing
    /\ UNCHANGED <<b_area, svars, hvars, avars, rvars, trvars, cvars, tvars, fvars>>

GenerateAreaBriefing ==
    /\ b_briefing = NoBriefing
    /\ b_briefing' = generate_area_briefing(b_area, BriefingIncidents(b_counts, 1))
    /\ UNCHANGED <<b_counts, b_area, svars, hvars, avars, rvars, trvars,
                   cvars, tvars, fvars>>

BriefingInit ==
    /\ b_counts = [k \in 1..Len(BriefingKinds) |-> 0]
    /\ b_area \in BriefingAreas
    /\ b_briefing = NoBriefing

BriefingNext == (\E k \in 1..Len(BriefingKinds) : RecordIncident(k)) \/ GenerateAreaBriefing

(***************************************************************************)
(* Calls of _calculate_trend on a growing set of incidents.                *)
(***************************************************************************)
\* the ages of an incident, in quarters of the window: inside the second
\* half, inside the first half, on the boundary of the halves, on the
\* start of the window
TrendAges == <<1, 3, 2, 4>>

TrendHours == {1, 24}

\* datetime.now() at line 155
TrendNow == 36 * TicksPerHour

TrendIncident(age, hours) ==
    [createdAt |-> CreatedAt(TrendNow - (age * hours * TicksPerHour) \div 4),
     resolved |-> FALSE, severity |-> 30, status |-> "approved",
     type |-> "traffic", area_name |-> "Gotri"]

\* the incidents list: counts[k] incidents of age k, age after age
RECURSIVE TrendIncidents(_, _, _)
TrendIncidents(counts, hours, k) ==
    IF k > Len(TrendAges) THEN << >>
    ELSE [j \in 1..counts[k] |-> TrendIncident(TrendAges[k], hours)]
         \o TrendIncidents(counts, hours, k + 1)

\* one more incident inside a half is created
CreateIncident(k) ==
    /\ k \in {1, 2}
    /\ Sum(tr_counts) < MaxTrendIncidents
    /\ tr_counts' = [tr_counts EXCEPT ![k] = @ + 1]
    /\ tr_trend' = NoTrend
    /\ UNCHANGED <<tr_hours, svars, hvars, avars, rvars, bvars, cvars, tvars, fvars>>

\* an incident is created on a boundary, the first of that age
CreateOnBoundary(k) ==
    /\ k \in {3, 4}
    /\ tr_counts[k] = 0
    /\ Sum(tr_counts) < MaxTrendIncidents
    /\ tr_counts' = [tr_counts EXCEPT ![k] = 1]
    /\ tr_trend' = NoTrend
    /\ UNCHANGED <<tr_hours, svars, hvars, avars, rvars, bvars, cvars, tvars, fvars>>

CalculateTrend ==
    /\ tr_trend = NoTrend
    /\ \E drift \in Drifts :
           tr_trend' = _calculate_trend(TrendIncidents(tr_counts, tr_hours, 1), tr_hours,
                                        TrendNow, TrendNow + drift)
    /\ UNCHANGED <<tr_counts, tr_hours, svars, hvars, avars, rvars, bvars,
                   cvars, tvars, fvars>>

TrendInit ==
    /\ tr_counts = [k \in 1..Len(TrendAges) |-> 0]
    /\ tr_hours \in TrendHours
    /\ tr_trend = NoTrend

TrendNext ==
    \/ \E k \in 1..Len(TrendAges) : CreateIncident(k)
    \/ \E k \in 1..Len(TrendAges) : CreateOnBoundary(k)
    \/ CalculateTrend

(***************************************************************************)
(* The specifications: each runs one component and leaves the others in    *)
(* their initial state.                                                    *)
(***************************************************************************)
ClassifierIdle == ClassifierInit /\ model_file = "missing"
TextIdle == t_text = "" /\ t_class = NoPair /\ t_sent = NoProfile
FusionIdle ==
    /\ f_inputs = << >> /\ f_hour = 0 /\ f_minute = 0
    /\ f_result = NoRisk /\ f_op = "none"
SummaryIdle ==
    /\ s_incidents = << >> /\ s_predictions = << >> /\ s_hours = 24 /\ s_now = 0
    /\ s_result = NoSummary /\ s_op = "none"
HealthIdle ==
    /\ h_active = 0 /\ h_critical = 0 /\ h_trend = TrendRecord(0, 0)
    /\ h_predictions = 0 /\ h_score = -1 /\ h_op = "none"
AnomalyIdle == AnomalyInit /\ a_hours = 24
RecsIdle == RecsInit /\ r_predictions = << >> /\ r_clock = 12 * TicksPerHour
BriefingIdle == BriefingInit /\ b_area = "Gotri"
TrendIdle == TrendInit /\ tr_hours = 24
SummarizerIdle ==
    /\ SummaryIdle /\ HealthIdle /\ AnomalyIdle
    /\ RecsIdle /\ BriefingIdle /\ TrendIdle

Init == /\ ClassifierInit /\ model_file \in {"missing", "valid"}
        /\ TextIdle /\ FusionIdle /\ SummarizerIdle
Next == ClassifierNext
Spec == Init /\ [][Next]_vars

InitText == ClassifierIdle /\ TextInit /\ FusionIdle /\ SummarizerIdle
SpecText == InitText /\ [][TextNext]_vars

InitFusion == ClassifierIdle /\ TextIdle /\ FusionInit /\ SummarizerIdle
SpecFusion == InitFusion /\ [][FusionNext]_vars

InitSummary ==
    /\ ClassifierIdle /\ TextIdle /\ FusionIdle
    /\ SummaryInit /\ HealthIdle /\ AnomalyIdle
    /\ RecsIdle /\ BriefingIdle /\ TrendIdle
SpecSummary == InitSummary /\ [][SummaryNext]_vars

InitHealth ==
    /\ ClassifierIdle /\ TextIdle /\ FusionIdle
    /\ SummaryIdle /\ HealthInit /\ AnomalyIdle
    /\ RecsIdle /\ BriefingIdle /\ TrendIdle
SpecHealth == InitHealth /\ [][HealthNext]_vars

InitAnomaly ==
    /\ ClassifierIdle /\ TextIdle /\ FusionIdle
    /\ SummaryIdle /\ HealthIdle /\ AnomalyInit
    /\ RecsIdle /\ BriefingIdle /\ TrendIdle
SpecAnomaly == InitAnomaly /\ [][AnomalyNext]_vars

InitRecs ==
    /\ ClassifierIdle /\ TextIdle /\ FusionIdle
    /\ SummaryIdle /\ HealthIdle /\ AnomalyIdle
    /\ RecsInit /\ BriefingIdle /\ TrendIdle
SpecRecs == InitRecs /\ [][RecsNext]_vars

InitBriefing ==
    /\ ClassifierIdle /\ TextIdle /\ FusionIdle
    /\ SummaryIdle /\ HealthIdle /\ AnomalyIdle
    /\ RecsIdle /\ BriefingInit /\ TrendIdle
SpecBriefing == InitBriefing /\ [][BriefingNext]_vars

InitTrend ==
    /\ ClassifierIdle /\ TextIdle /\ FusionIdle
    /\ SummaryIdle /\ HealthIdle /\ AnomalyIdle
    /\ RecsIdle /\ BriefingIdle /\ TrendInit
SpecTrend == InitTrend /\ [][TrendNext]_vars

(***************************************************************************)
(* Properties of the lazily loaded classifier model (Spec).                *)
(***************************************************************************)
\* C1: however the threads interleave, MODEL_PATH is opened and unpickled at
\* most once, and the load block is entered at most once: a load that failed
\* or found no file is not repeated by a later call.
C1_LoadAtMostOnce == opens <= 1 /\ attempts <= 1

\* Two calls raced past the unlocked check, the one load failed on a file
\* that was still being written, the file is complete now, and a later call
\* has returned without another load.
C1_Witness ==
    /\ slow_entries >= 2
    /\ opens = 1
    /\ _model = None
    /\ model_file = "valid"
    /\ calls = MaxCalls
    /\ \A t \in Threads : pc[t] = "done"

\* C2: classify_issue never raises: every finished call holds a (category,
\* confidence) pair, and when the model could not be loaded or its
\* prediction raised, that pair is the rule-based result for the same text.
C2_NeverRaises ==
    \A t \in Threads :
        pc[t] = "done" =>
            /\ ret[t] # Raised
            /\ ret[t] # NoPair
            /\ (got[t] = None \/ predict_raised[t]) => ret[t] = RuleBased(arg[t])

\* A call whose prediction raised has returned the rule-based pair of a text
\* with keyword hits.
C2_Witness ==
    \E t \in Threads :
        /\ pc[t] = "done"
        /\ predict_raised[t]
        /\ arg[t] = "traffic jam"
        /\ ret[t] = [category |-> "traffic", confidence |-> 70]

(***************************************************************************)
(* Properties of the rule path and of the sentiment analyzer (SpecText).   *)
(***************************************************************************)
NoKeywordOccurs(text_lower) ==
    \A c \in 1..Len(Categories) : \A i \in 1..Len(KEYWORDS(Categories[c])) :
        ~Contains(text_lower, KEYWORDS(Categories[c])[i])

\* C3: on the rule path 0.0 <= confidence <= 0.95, and confidence is 0.0
\* exactly when no keyword of any category occurs in the lower-cased text, in
\* which case the category is "other".
C3_RuleConfidenceRange ==
    t_class # NoPair =>
        /\ 0 <= t_class.confidence /\ t_class.confidence <= 95
        /\ (t_class.confidence = 0) <=> NoKeywordOccurs(Lower(t_text))
        /\ t_class.confidence = 0 => t_class.category = "other"

\* A text with six hits in one category got the capped confidence.
C3_Witness ==
    /\ t_class # NoPair
    /\ t_class.confidence = 95
    /\ Score(Lower(t_text), t_class.category) >= 6

\* C4: the scenario text is classified "water" by the rules, and its profile
\* has urgency high or critical and has_location true.
C4_Scenario ==
    t_text = ScenarioText =>
        /\ t_class # NoPair => t_class.category = "water"
        /\ t_sent # NoProfile => /\ t_sent.urgency \in {"high", "critical"}
                                 /\ t_sent.has_location = TRUE

C4_Witness ==
    /\ t_text = ScenarioText
    /\ t_class # NoPair
    /\ t_sent # NoProfile
    /\ t_sent.has_location

\* C5 as stated: the scenario text, with its "!!!", is reported amplified.
C5_ScenarioAmplified ==
    (t_text = ScenarioText /\ t_sent # NoProfile) => t_sent.amplified = TRUE

\* C5, amended: the scenario text is reported not amplified; exclamation
\* marks never set the flag, only a word of SEVERITY_AMPLIFIERS occurring in
\* the lower-cased text does.
C5_AmplifiedOnlyByWords ==
    t_sent # NoProfile =>
        /\ t_text = ScenarioText => t_sent.amplified = FALSE
        /\ t_sent.amplified =>
               \E i \in 1..Len(SEVERITY_AMPLIFIERS) :
                   Contains(Lower(t_text), SEVERITY_AMPLIFIERS[i])

C5_Witness ==
    /\ t_text = ScenarioText
    /\ CountChar(t_text, "!") = 3
    /\ t_sent # NoProfile
    /\ t_sent.amplified = FALSE

\* the numeric range of an urgency label, in hundredths
InLabelRange(label, score) ==
    CASE label = "critical" -> score >= 80
      [] label = "high"     -> score >= 60 /\ score < 80
      [] label = "moderate" -> score >= 35 /\ score < 60
      [] label = "low"      -> score < 35

\* C6: the urgency_score returned lies in the range of the urgency label
\* returned with it, also for the default profile and after amplification.
C6_ScoreInLabelRange ==
    t_sent # NoProfile => InLabelRange(t_sent.urgency, t_sent.urgency_score)

\* the severity and urgency of a text before the amplification step
BaseUrgency(text) == _calculate_urgency(Strip(Lower(text)))[2]
BaseSeverity(text) == _calculate_severity(Strip(Lower(text)), BaseUrgency(text))

\* C7: severity_score and urgency_score are within [0, 1]; with an amplifier
\* word present they are 1.3 times the severity and 1.2 times the urgency,
\* each clamped to 1.0 on its own.
C7_ScoresClamped ==
    t_sent # NoProfile =>
        /\ 0 <= t_sent.severity_score /\ t_sent.severity_score <= 100
        /\ 0 <= t_sent.urgency_score /\ t_sent.urgency_score <= 100
        /\ t_sent.amplified =>
               /\ \E fp \in FloatErrors :
                      t_sent.severity_score =
                          RoundDiv(Min(100000, (BaseSeverity(t_text) * 13) \div 10), 1000, fp)
               /\ \E fp \in FloatErrors :
                      t_sent.urgency_score =
                          RoundDiv(Min(1000, BaseUrgency(t_text) * 12), 10, fp)

\* An amplified text whose severity and urgency were both cut to 1.0, from
\* values that were below 1.0 before the multiplication.
C7_Witness ==
    /\ t_sent # NoProfile
    /\ t_sent.amplified
    /\ t_sent.severity_score = 100
    /\ t_sent.urgency_score = 100
    /\ BaseSeverity(t_text) < 100000
    /\ BaseUrgency(t_text) < 100

(***************************************************************************)
(* Properties of the fusion engine (SpecFusion).                           *)
(***************************************************************************)
\* C8: for every inputs dict, also with scores below 0 or above 1, the
\* returned final_risk is within [0, 1].
C8_RiskInUnitInterval ==
    f_result # NoRisk => 0 <= f_result.final_risk /\ f_result.final_risk <= 100

\* the step from one call to a call whose dict has the same keys and one
\* larger score, made in the same hour
OneSignalRaised ==
    /\ f_result # NoRisk
    /\ f_result' # NoRisk
    /\ f_hour' = f_hour
    /\ DOMAIN f_inputs' = DOMAIN f_inputs
    /\ \E k \in DOMAIN f_inputs :
           /\ f_inputs'[k] > f_inputs[k]
           /\ \A j \in DOMAIN f_inputs \ {k} : f_inputs'[j] = f_inputs[j]

\* C9: raising one signal, the others and the hour held fixed, never lowers
\* final_risk; time_series and anomaly with an imputed weather included.
C9_Monotonic ==
    [][OneSignalRaised => f_result'.final_risk >= f_result.final_risk]_vars

\* time_series was raised in a dict without weather_score, and the risk grew
\* through both its own weight and the imputed weather.
C9_Witness ==
    /\ f_op = "raised"
    /\ "weather" \notin DOMAIN f_inputs
    /\ "time_series" \in DOMAIN f_inputs
    /\ f_inputs["time_series"] = 61
    /\ f_result.breakdown.weather > 0
    /\ f_result.final_risk > 0

\* C10: at every hour the demo scenario is CRITICAL with a boost of 0.08.
C10_GotriCritical ==
    f_op = "simulate_gotri_scenario" =>
        /\ f_result.level = "CRITICAL"
        /\ f_result.correlation_boost = 80

\* The demo ran in a late-night hour, where the temporal factor is lowest.
C10_Witness ==
    /\ f_op = "simulate_gotri_scenario"
    /\ f_hour = 3
    /\ f_result.breakdown.temporal = 30
    /\ f_result.level = "CRITICAL"

\* C11: any two runs of the demo scenario, at whatever hours they are made,
\* return the same final_risk and the same breakdown.
C11_GotriReproducible ==
    [][(f_op = "simulate_gotri_scenario" /\ f_op' = "simulate_gotri_scenario")
          => /\ f_result'.final_risk = f_result.final_risk
             /\ f_result'.breakdown = f_result.breakdown]_vars

\* C12: a weather_score or temporal_score key present with value 0 is used
\* as 0; only an absent key is imputed, weather as (time_series + anomaly)/2
\* and temporal from the hour; the breakdown reports the values used, and
\* final_risk is the clamped weighted sum of exactly these values.
C12_PresentZeroNotImputed ==
    f_result # NoRisk =>
        LET ts == Get(f_inputs, "time_series")
            an == Get(f_inputs, "anomaly")
            weather_twice == IF "weather" \in DOMAIN f_inputs
                             THEN 2 * f_inputs["weather"] ELSE ts + an
            temporal == IF "temporal" \in DOMAIN f_inputs
                        THEN f_inputs["temporal"] ELSE _get_temporal_factor(f_hour)
            sum == 50 * ts + 40 * Get(f_inputs, "nlp") + 30 * an
                   + 20 * Get(f_inputs, "history") + 30 * Get(f_inputs, "video")
                   + 10 * weather_twice + 10 * temporal
                   + _calculate_correlation_boost(f_inputs)
        IN  /\ \E fp \in FloatErrors :
                   f_result.breakdown.weather = RoundDiv(weather_twice, 2, fp)
            /\ f_result.breakdown.temporal = temporal
            /\ \E fp \in FloatErrors :
                   f_result.final_risk = RoundDiv(Min(20000, sum), 200, fp)

\* A dict with weather_score 0 and a time_series_score from which a weather
\* of 0.3 would have been imputed: the breakdown reports weather 0.
C12_Witness ==
    /\ f_op = "calculate_risk"
    /\ DOMAIN f_inputs = {"weather", "time_series"}
    /\ f_inputs["weather"] = 0
    /\ f_inputs["time_series"] = 60
    /\ f_result.breakdown.weather = 0
    /\ f_result.breakdown.temporal = _get_temporal_factor(f_hour)

\* C13: in every result the level is the strict discretization of the
\* final_risk returned with it: CRITICAL iff final_risk > 0.8, HIGH iff
\* 0.6 < final_risk <= 0.8, MEDIUM iff 0.4 < final_risk <= 0.6, else LOW.
C13_LevelOfReturnedRisk ==
    f_result # NoRisk =>
        f_result.level = IF f_result.final_risk > 80 THEN "CRITICAL"
                         ELSE IF f_result.final_risk > 60 THEN "HIGH"
                         ELSE IF f_result.final_risk > 40 THEN "MEDIUM"
                         ELSE "LOW"

(***************************************************************************)
(* Properties of the city summarizer (SpecSummary, SpecHealth,             *)
(* SpecAnomaly).                                                           *)
(***************************************************************************)
\* a call of generate_executive_summary has returned a dict
Returned == s_result # NoSummary /\ s_result # SummaryRaised

\* C14: for every list of incidents and predictions the health_score of
\* the returned summary is an integer within [0, 100].
C14_HealthScoreRange ==
    Returned => s_result.health_score \in 0..100

\* Only resolved incidents, all of the first half of the window: the trend
\* is a decrease of 100%, the bonus takes the score to 110 points and the
\* summary reports 100.
C14_Witness ==
    /\ Returned
    /\ s_result.metrics.total_active = 0
    /\ s_result.trend.direction = "decreasing"
    /\ HealthPoints(s_result.metrics.total_active, s_result.metrics.critical,
                    s_result.trend, Len(s_predictions)) = 110
    /\ s_result.health_score = 100

\* the step from one health score to the score with one more active issue,
\* or with one more critical issue, trend and prediction count unchanged
ActiveRaised == h_score # -1 /\ h_active' = h_active + 1
CriticalRaised == h_score # -1 /\ h_critical' = h_critical + 1

\* C15 as stated: raising the active count or the critical count by one,
\* the other arguments fixed, always yields a strictly smaller health score.
C15_StrictlyDecreasing ==
    [][(ActiveRaised \/ CriticalRaised) => h_score' < h_score]_vars

\* C15, amended: raising the active count or the critical count by one
\* never yields a larger health score; the score is strictly smaller when
\* the score before was below 100 and the count raised was below the cap
\* of its deduction (active < 15, critical < 4).
C15_NonIncreasing ==
    [][/\ (ActiveRaised \/ CriticalRaised) => h_score' <= h_score
       /\ (ActiveRaised /\ h_active < 15 /\ h_score < 100) => h_score' < h_score
       /\ (CriticalRaised /\ h_critical < 4 /\ h_score < 100) => h_score' < h_score]_vars

\* A sixteenth active issue: the deduction was already capped at 30 with
\* fifteen, the score is the 70 it was before.
C15_Witness ==
    /\ h_op = "active_raised"
    /\ h_active = 16
    /\ h_critical = 0
    /\ h_trend.direction = "stable"
    /\ h_predictions = 0
    /\ h_score = 70

\* C16: with no incidents and no predictions generate_executive_summary
\* does not raise and returns health_score 100, the "operating normally, no
\* active incidents" narrative and empty hotspot_areas, anomalies and
\* recommendations, at every hour of the day.
C16_EmptyInputs ==
    (s_result # NoSummary /\ s_incidents = << >> /\ s_predictions = << >>) =>
        /\ s_result # SummaryRaised
        /\ s_result.health_score = 100
        /\ s_result.narrative =
               "City systems operating normally. No active incidents reported."
        /\ s_result.hotspot_areas = << >>
        /\ s_result.anomalies = << >>
        /\ s_result.recommendations = << >>

\* The empty call made in the morning rush hour, where a recommendation is
\* the most likely.
C16_Witness ==
    /\ s_incidents = << >>
    /\ s_predictions = << >>
    /\ HourOfDay(s_now) = 8
    /\ Returned
    /\ s_result.health_label = "Excellent"
    /\ s_result.recommendations = << >>

\* C17: two calls of generate_executive_summary with the same incidents,
\* predictions and window_hours return the identical narrative, whenever
\* the two calls are made.
C17_NarrativeDetermined ==
    [][(/\ Returned
        /\ Returned'
        /\ s_incidents' = s_incidents
        /\ s_predictions' = s_predictions
        /\ s_hours' = s_hours)
          => s_result'.narrative = s_result.narrative]_vars

\* the recent incidents of a type, of an area and in all, from a_counts
RecentOfType(type) ==
    Sum([k \in 1..Len(AnomalyKinds) |->
            IF AnomalyKinds[k].recent /\ AnomalyKinds[k].type = type
            THEN a_counts[k] ELSE 0])
RecentOfArea(area) ==
    Sum([k \in 1..Len(AnomalyKinds) |->
            IF AnomalyKinds[k].recent /\ AnomalyKinds[k].area_name = area
            THEN a_counts[k] ELSE 0])
RecentTotal ==
    Sum([k \in 1..Len(AnomalyKinds) |-> IF AnomalyKinds[k].recent THEN a_counts[k] ELSE 0])

\* the anomalies returned, as a set
Detected == {a_anomalies[j] : j \in 1..Len(a_anomalies)}

\* C18: _detect_anomalies returns a type_spike for every type that has at
\* least 3 of the recent incidents and more than 60% of them, and for no
\* other type; and it returns every anomaly that matches, of all three
\* checks: an area_cluster for every area with at least 4 and more than
\* 40%, and a rate_spike with at least 10 recent incidents at more than 2
\* an hour.
C18_AllAnomaliesReturned ==
    a_anomalies # NotDetected =>
        /\ \A type \in {"traffic", "water", "garbage"} :
               (RecentOfType(type) >= 3 /\ 10 * RecentOfType(type) > 6 * RecentTotal)
               <=> [type |-> "type_spike", severity |-> "warning", affected |-> type]
                      \in Detected
        /\ \A area \in {"Gotri", "Akota"} :
               (RecentOfArea(area) >= 4 /\ 10 * RecentOfArea(area) > 4 * RecentTotal)
               <=> [type |-> "area_cluster", severity |-> "warning", affected |-> area]
                      \in Detected
        /\ (RecentTotal >= 10 /\ RecentTotal > 2 * a_hours)
               <=> \E a \in Detected : a.type = "rate_spike"

\* 7 of 10 recent incidents are traffic in Gotri, within one hour: the type
\* spike, the area cluster and the rate spike are all returned.
C18_Witness ==
    /\ a_counts = <<7, 0, 0, 3, 0>>
    /\ a_hours = 1
    /\ a_anomalies =
           <<[type |-> "type_spike", severity |-> "warning", affected |-> "traffic"],
             [type |-> "area_cluster", severity |-> "warning", affected |-> "Gotri"],
             [type |-> "rate_spike", severity |-> "critical", affected |-> "rate"]>>

\* the overall rate is low: fewer than 10 recent incidents, or at most 2 an
\* hour
LowRate == RecentTotal < 10 \/ RecentTotal <= 2 * a_hours

\* C19 as stated: recent issues with no type and no area occurring more
\* than 3 times, at a low overall rate, trigger zero anomalies.
C19_QuietSetNoAnomalies ==
    (/\ a_anomalies # NotDetected
     /\ \A type \in {"traffic", "water"} : RecentOfType(type) <= 3
     /\ \A area \in {"Gotri", "Akota"} : RecentOfArea(area) <= 3
     /\ LowRate)
        => a_anomalies = << >>

\* C19, amended: recent issues trigger zero anomalies when no type occurs
\* more than 2 times, or more than 3 times in a set of at least 5, no area
\* occurs more than 3 times and the overall rate is low.
C19_QuietSetAmended ==
    (/\ a_anomalies # NotDetected
     /\ \A type \in {"traffic", "water"} :
            \/ RecentOfType(type) <= 2
            \/ RecentOfType(type) <= 3 /\ RecentTotal >= 5
     /\ \A area \in {"Gotri", "Akota"} : RecentOfArea(area) <= 3
     /\ LowRate)
        => a_anomalies = << >>

\* Three traffic incidents among five recent ones, three of them in Gotri:
\* 60% is not more than 60%, nothing is reported.
C19_Witness ==
    /\ a_counts = <<3, 0, 0, 2, 0>>
    /\ a_anomalies = << >>

\* the incidents of the list whose createdAt is missing or not parseable,
\* and those with a time inside the window of the call
NotATime(i) == i.createdAt.kind # "time"
InWindow(i) == i.createdAt.kind = "time" /\ i.createdAt.at > s_now - s_hours * TicksPerHour

\* C20: an issue whose createdAt is missing or cannot be parsed never makes
\* the summarizer raise, and is counted in new_last_period if and only if
\* window_hours is greater than 1 (it is dated one hour before now).
C20_UnparseableDefaults ==
    s_result # NoSummary =>
        /\ s_result # SummaryRaised
        /\ s_result.metrics.new_last_period =
               Len(SelectSeq(s_incidents, InWindow))
               + (IF s_hours > 1 THEN Len(SelectSeq(s_incidents, NotATime)) ELSE 0)

(***************************************************************************)
(* Properties of the recommendations (SpecRecs).                           *)
(***************************************************************************)
IsHotspotRec(r) == At(r.action, 1, "Deploy ")
IsPredictionRec(r) == At(r.reason, 1, "AI prediction")
IsRushHourRec(r) == r.area = "City-wide"

\* C21: at most 5 recommendations are returned, in category order: one for
\* each hotspot with 3 or more incidents (priority "high" iff 5 or more),
\* then up to 3 for the predictions with probability > 0.6, then the
\* rush-hour one when 2 or more traffic incidents are active; truncation
\* drops later categories only, and whenever some prediction has
\* probability > 0.6 a prediction-based recommendation is returned.
C21_RecommendationOrder ==
    r_recs # NoRecs =>
        LET Category(r) == IF IsHotspotRec(r) THEN 1
                           ELSE IF IsPredictionRec(r) THEN 2 ELSE 3
            OfCategory(c) == {j \in 1..Len(r_recs) : Category(r_recs[j]) = c}
            hot == {k \in 1..Len(RecKinds) : r_counts[k] >= 3}
            likely == {j \in 1..Len(r_predictions) : r_predictions[j].probability > 60}
            rush == HourOfDay(r_clock) = 7 /\ r_counts[1] >= 2
            for_predictions == Min(Min(Cardinality(likely), 3), 5 - Cardinality(hot))
        IN  /\ Len(r_recs) <= 5
            /\ \A i, j \in 1..Len(r_recs) :
                   i < j => Category(r_recs[i]) <= Category(r_recs[j])
            /\ Cardinality(OfCategory(1)) = Cardinality(hot)
            /\ \A k \in hot : \E j \in OfCategory(1) :
                   /\ r_recs[j].area = RecKinds[k].area_name
                   /\ r_recs[j].priority = (IF r_counts[k] >= 5 THEN "high" ELSE "medium")
            /\ Cardinality(OfCategory(2)) = for_predictions
            /\ (likely # {}) => OfCategory(2) # {}
            /\ (OfCategory(3) # {}) <=>
                   (rush /\ Cardinality(hot) + for_predictions < 5)

(***************************************************************************)
(* Properties of the area briefing (SpecBriefing).                         *)
(***************************************************************************)
\* the unresolved incidents of the named area, counted from the kinds
OwnUnresolved ==
    {k \in 1..Len(BriefingKinds) :
        /\ BriefingKinds[k].area_name = b_area /\ ~BriefingKinds[k].resolved
        /\ b_counts[k] > 0}
OwnUnresolvedCount ==
    LET RECURSIVE Upto(_)
        Upto(k) == IF k = 0 THEN 0
                   ELSE Upto(k - 1) + (IF k \in OwnUnresolved THEN b_counts[k] ELSE 0)
    IN  Upto(Len(BriefingKinds))
OwnSeverityAtLeast(severity) ==
    \E k \in OwnUnresolved : BriefingKinds[k].severity >= severity

\* C22: risk_level is determined by the unresolved incidents of the named
\* area alone: critical iff there are 5 or more or one has severity >= 0.8,
\* otherwise high iff there are 3 or more or one has severity >= 0.6,
\* otherwise moderate iff there is one, otherwise low; resolved incidents
\* and incidents of other areas do not enter.
C22_RiskLevelOfArea ==
    b_briefing # NoBriefing =>
        b_briefing.risk_level =
            (IF OwnUnresolvedCount >= 5 \/ OwnSeverityAtLeast(80) THEN "critical"
             ELSE IF OwnUnresolvedCount >= 3 \/ OwnSeverityAtLeast(60) THEN "high"
             ELSE IF OwnUnresolvedCount >= 1 THEN "moderate"
             ELSE "low")

\* a briefing of Gotri that is high by its three mild unresolved incidents,
\* while a severe resolved incident of Gotri and a severe incident of Akota
\* exist
C22_Witness ==
    /\ b_briefing # NoBriefing
    /\ b_area = "Gotri"
    /\ b_counts = <<3, 0, 0, 1, 1>>
    /\ b_briefing.risk_level = "high"
    /\ b_briefing.active_incidents = 3

(***************************************************************************)
(* Further properties of the rule path and of the urgency tiers (SpecText). *)
(***************************************************************************)
\* the fixed order of the categories
CategoryOrder == <<"traffic", "garbage", "water", "light">>
\* the keyword hits of the categories, in that order
HitsInOrder(text) ==
    LET text_lower == Lower(text)
    IN  [k \in 1..4 |-> Score(text_lower, CategoryOrder[k])]
\* the positions whose categories have the largest hit count
Winners(hits) == {k \in 1..4 : \A j \in 1..4 : hits[j] <= hits[k]}

\* C23: with a keyword hit, the rule path returns the category of the
\* largest hit count, the first of traffic, garbage, water, light among
\* those tied for it, with confidence min(0.95, 0.5 + 0.1 * hits): 0.6 for
\* one hit, 0.95 for five or more.
C23_FirstOfTiedCategories ==
    t_class # NoPair =>
        LET hits == HitsInOrder(t_text)
            winners == Winners(hits)
            first == CHOOSE k \in winners : \A j \in winners : k <= j
        IN  (hits[first] > 0) =>
                /\ t_class.category = CategoryOrder[first]
                /\ t_class.confidence = Min(95, 50 + 10 * hits[first])
                /\ hits[first] = 1 => t_class.confidence = 60
                /\ hits[first] >= 5 => t_class.confidence = 95

\* a text with one hit for each of traffic, garbage and light
C23_Witness ==
    /\ t_class # NoPair
    /\ t_text = "road blocked dirty lamp"
    /\ Winners(HitsInOrder(t_text)) = {1, 2, 4}
    /\ t_class = [category |-> "traffic", confidence |-> 60]

\* the keyword hits of the tiers critical, high and moderate in the text as
\* analyze_sentiment scans it
TierHits(text) ==
    LET text_lower == Strip(Lower(text))
    IN  [critical |-> CountHits(text_lower, URGENCY_KEYWORDS("critical")),
         high |-> CountHits(text_lower, URGENCY_KEYWORDS("high")),
         moderate |-> CountHits(text_lower, URGENCY_KEYWORDS("moderate"))]
\* the score of the deciding tier for its number of hits
TierScore(single, base, step, cap, hits) ==
    IF hits = 1 THEN single ELSE Min(cap, base + step * hits)

\* C24: the urgency tiers are resolved in the priority critical, high,
\* moderate: one critical hit makes the text critical whatever the other
\* counts, otherwise one high hit makes it high; the score before
\* amplification is 0.8 / 0.6 / 0.35 for one hit of the deciding tier,
\* min(1.0, 0.85 + 0.05 * hits) / min(0.79, 0.6 + 0.05 * hits) /
\* min(0.59, 0.4 + 0.03 * hits) for more, and low / 0.15 without a hit.
C24_TierPriority ==
    (t_sent # NoProfile /\ Len(Strip(t_text)) > 0) =>
        LET hits == TierHits(t_text)
            expected ==
                IF hits.critical >= 1
                THEN <<"critical", TierScore(80, 85, 5, 100, hits.critical)>>
                ELSE IF hits.high >= 1
                THEN <<"high", TierScore(60, 60, 5, 79, hits.high)>>
                ELSE IF hits.moderate >= 1
                THEN <<"moderate", TierScore(35, 40, 3, 59, hits.moderate)>>
                ELSE <<"low", 15>>
        IN  /\ t_sent.urgency = expected[1]
            /\ ~t_sent.amplified => t_sent.urgency_score = expected[2]
            /\ t_sent.amplified =>
                   \E fp \in FloatErrors :
                       t_sent.urgency_score = RoundDiv(Min(1000, expected[2] * 12), 10, fp)

\* a text with one critical, one high and no moderate hit
C24_Witness ==
    /\ t_sent # NoProfile
    /\ t_text = "urgent!!! traffic jam stuck vehicle congestion"
    /\ TierHits(t_text).critical = 1 /\ TierHits(t_text).high = 1
    /\ t_sent.urgency = "critical" /\ t_sent.urgency_score = 80
    /\ ~t_sent.amplified

\* C25: the severity returned for a text is min(1.0, urgency_score * 0.6 +
\* min(0.15, words / 100) + min(0.15, uppercase_ratio * 0.5 + exclamation
\* marks * 0.03) + min(0.10, digit groups * 0.02)), amplified where an
\* amplifier word occurs, with the uppercase ratio taken from the text as
\* it was submitted: capitals raise the intensity term.
C25_SeverityCountsCapitals ==
    (t_sent # NoProfile /\ Len(Strip(t_text)) > 0) =>
        LET submitted == Strip(t_text)
            severity == _calculate_severity(submitted, BaseUrgency(t_text))
            amp == Amplify(t_sent.amplified, severity, BaseUrgency(t_text))
        IN  \E fp \in FloatErrors : t_sent.severity_score = RoundDiv(amp[1], 1000, fp)

(***************************************************************************)
(* Further properties of the fusion engine (SpecFusion).                   *)
(***************************************************************************)
\* the time of day of the call, in minutes since midnight
TimeOfDay == 60 * f_hour + f_minute

\* C26: the temporal factor imputed for an absent temporal_score is 0.8
\* from 08:00 to 10:00 and from 17:00 to 20:00, 0.3 from 22:00 to 05:00 and
\* 0.5 at every other time, so 0.5 at 10:30, 20:30 and 05:30.
C26_TemporalWindows ==
    (f_result # NoRisk /\ "temporal" \notin DOMAIN f_inputs) =>
        f_result.breakdown.temporal =
            (IF \/ (8 * 60 <= TimeOfDay /\ TimeOfDay <= 10 * 60)
                \/ (17 * 60 <= TimeOfDay /\ TimeOfDay <= 20 * 60)
             THEN 80
             ELSE IF 22 * 60 <= TimeOfDay \/ TimeOfDay <= 5 * 60 THEN 30
             ELSE 50)

\* how many of time_series, nlp, anomaly and video are above 0.6
HighSignals ==
    Cardinality({s \in {"time_series", "nlp", "anomaly", "video"} :
                    s \in DOMAIN f_inputs /\ f_inputs[s] > 60})

\* C27: the correlation boost is 0.08 when three or more of time_series,
\* nlp, anomaly and video are above 0.6 (an absent one counts as 0), 0.04
\* when exactly two are and 0 otherwise, whatever history, weather and
\* temporal are; it is added to the weighted sum, whose weights 0.25, 0.20,
\* 0.15, 0.10, 0.15, 0.10, 0.05 sum to 1.0.
C27_CorrelationBoost ==
    f_result # NoRisk =>
        LET boost == IF HighSignals >= 3 THEN 80 ELSE IF HighSignals = 2 THEN 40 ELSE 0
        IN  /\ f_result.correlation_boost = boost
            /\ <<weights("time_series"), weights("nlp"), weights("anomaly"),
                  weights("history"), weights("video"), weights("weather"),
                  weights("temporal")>> = <<25, 20, 15, 10, 15, 10, 5>>
            /\ weights("time_series") + weights("nlp") + weights("anomaly")
                   + weights("history") + weights("video") + weights("weather")
                   + weights("temporal") = 100
            /\ \E fp \in FloatErrors :
                   f_result.final_risk =
                       RoundDiv(Min(20000, WeightedSum(f_inputs, f_hour) + 20 * boost),
                                200, fp)

\* a result for exactly three signals above 0.6, and one for two above 0.6
\* beside a history of 0.8
C27_Witness ==
    /\ f_result # NoRisk
    /\ f_inputs = ("time_series" :> 61 @@ "nlp" :> 61 @@ "anomaly" :> 61)
    /\ HighSignals = 3
    /\ f_result.correlation_boost = 80

(***************************************************************************)
(* Properties of the trend (SpecTrend, SpecSummary).                       *)
(***************************************************************************)
\* C28: the window is split into two halves: an incident inside a half is
\* counted in that half, none is counted twice; change_percent is
\* 100 * (second - first) / first, +100 for an empty first half with a
\* non-empty second one and 0 when both are empty; the direction is
\* "increasing" iff that change is above 10, "decreasing" iff it is below
\* -10, "stable" otherwise.
C28_TrendChange ==
    tr_trend # NoTrend =>
        LET first == tr_trend.first_half_count
            second == tr_trend.second_half_count
            rises == IF first = 0 THEN second > 0
                     ELSE 100 * (second - first) > 10 * first
            falls == first > 0 /\ 100 * (second - first) < -10 * first
        IN  /\ second >= tr_counts[1] /\ first >= tr_counts[2]
            /\ first + second <= Sum(tr_counts)
            /\ IF first = 0
               THEN tr_trend.change_percent = (IF second > 0 THEN 100 ELSE 0)
               ELSE tr_trend.change_percent * first = 100 * (second - first)
            /\ tr_trend.direction = (IF rises THEN "increasing"
                                     ELSE IF falls THEN "decreasing" ELSE "stable")

(***************************************************************************)
(* A further property of the lazily loaded classifier model (Spec).        *)
(***************************************************************************)
\* the callers whose _get_model has returned in the current call
HasModel(position) == {t \in Threads : position[t] \in {"predict", "done"}}

\* C29: once _model_loaded is true it stays true and _model never changes,
\* and every _get_model that has returned, under any interleaving, holds
\* that one value: the loaded model, or None when none could be loaded.
C29_ModelReadOnly ==
    [][/\ _model_loaded => (_model_loaded' /\ _model' = _model)
       /\ \A t \in HasModel(pc') : _model_loaded' /\ got'[t] = _model']_vars

\* both callers raced past the unlocked check, one loaded the model, and
\* both hold it
C29_Witness ==
    /\ slow_entries = 2
    /\ opens = 1
    /\ _model_loaded /\ _model = "model"
    /\ \A t \in Threads : pc[t] = "predict" /\ got[t] = "model"

\* C30: in every executive summary the two halves of the trend partition
\* the recent incidents: first_half_count + second_half_count equals
\* metrics.new_last_period, whatever the timestamps are (later than now, on
\* the start of the window, on the boundary of the halves).
C30_HalvesPartitionRecent ==
    (s_result # NoSummary /\ s_result # SummaryRaised) =>
        s_result.trend.first_half_count + s_result.trend.second_half_count
            = s_result.metrics.new_last_period


====
